---------------------------- MODULE Spec2Model ----------------------------
(***************************************************************************)
(* State-machine model of the four programs of the jet reconstruction      *)
(* tutorial: jetRecoExp and jetRecoGroom (the "reco" programs, pipelines A *)
(* and B), and jetRecoExp_plots and jetRecoGroom_plots (the "plots"        *)
(* programs).  One behaviour is one invocation of a program, optionally    *)
(* followed by an invocation of the matching plots program on the file the *)
(* reco program wrote.                                                     *)
(*                                                                         *)
(* Everything the programs read from outside (arguments, the input file,   *)
(* the tree's columns, the events) is drawn from small sets.               *)
(***************************************************************************)
EXTENDS Integers, Sequences, FiniteSets, Bags, TLC

(***************************************************************************)
(* Bounds of the model.                                                    *)
(***************************************************************************)
MaxArgc == 6        \* argc ranges over 1..MaxArgc
MaxEvents == 2      \* the input tree holds 0..MaxEvents entries
MaxMissing == 1     \* at most this many columns are absent from the tree
MaxOrderEvents == 3 \* entries of the tree when the order of events is studied

(***************************************************************************)
(* Program constants.                                                      *)
(***************************************************************************)
NumStages == 5           \* steps 1..5; the range check accepts 0..NumStages
RecoMinArgc == 5         \* jetRecoExp.cpp:26, jetRecoGroom.cpp:41
PlotsMinArgc == 4        \* jetRecoExp_plots.cpp:57, jetRecoGroom_plots.cpp:54
MassPtCut == 400000      \* 400.e3, jetRecoGroom.cpp:270 and :272
ProgressEvery == 10000   \* jetRecoExp.cpp:206, jetRecoGroom.cpp:237
ExitOK == 0              \* return 0
ExitError == 1           \* return 1
ExitAbort == 134         \* uncaught std::out_of_range -> std::terminate -> SIGABRT
ExitSegv == 139          \* null pointer dereference -> SIGSEGV

RecoProgs == { "jetRecoExp", "jetRecoGroom" }
PlotsProgs == { "jetRecoExp_plots", "jetRecoGroom_plots" }
Progs == RecoProgs \cup PlotsProgs
Stages == 1..NumStages

PlotsOf(p) == IF p = "jetRecoExp" THEN "jetRecoExp_plots" ELSE "jetRecoGroom_plots"

(***************************************************************************)
(* Strings are sequences of one-character strings, so that parsing and     *)
(* suffix tests are computed and not assumed.                              *)
(***************************************************************************)
Digits == { "0", "1", "2", "3", "4", "5", "6", "7", "8", "9" }

DigitVal(c) ==
    CASE c = "0" -> 0 [] c = "1" -> 1 [] c = "2" -> 2 [] c = "3" -> 3
      [] c = "4" -> 4 [] c = "5" -> 5 [] c = "6" -> 6 [] c = "7" -> 7
      [] c = "8" -> 8 [] c = "9" -> 9

IsSpace(c) == c \in { " " }

RECURSIVE SkipSpace(_)
SkipSpace(s) ==
    IF s # << >> /\ IsSpace(Head(s)) THEN SkipSpace(Tail(s)) ELSE s

(***************************************************************************)
(* A long is kept as two 16-bit limbs holding its low 32 bits, which is    *)
(* all that the conversion to int looks at.  AccDigits is the digit loop   *)
(* of atol: v = 10*v + digit, stopping at the first non-digit.             *)
(***************************************************************************)
Limb == 65536

RECURSIVE AccDigits(_, _, _)
AccDigits(s, hi, lo) ==
    IF s = << >> \/ Head(s) \notin Digits
    THEN [hi |-> hi, lo |-> lo]
    ELSE LET t == lo * 10 + DigitVal(Head(s))
         IN  AccDigits(Tail(s), (hi * 10 + (t \div Limb)) % Limb, t % Limb)

\* two's complement negation of the low 32 bits
NegLimbs(v) ==
    IF v.lo = 0
    THEN [hi |-> (Limb - v.hi) % Limb, lo |-> 0]
    ELSE [hi |-> (Limb - 1 - v.hi), lo |-> Limb - v.lo]

\* atol(argv[2]): leading white space, an optional sign, then digits;
\* text without leading digits yields 0.
atol(s) ==
    LET t == SkipSpace(s)
        neg == t # << >> /\ Head(t) = "-"
        u == IF t # << >> /\ Head(t) \in { "-", "+" } THEN Tail(t) ELSE t
        v == AccDigits(u, 0, 0)
    IN  IF neg THEN NegLimbs(v) ELSE v

\* const int stepNum = atol(...): the long is narrowed to a 32-bit int
ToInt(v) ==
    IF v.hi >= Limb \div 2
    THEN (v.hi - Limb) * Limb + v.lo
    ELSE v.hi * Limb + v.lo

\* the comparison made without the suffix's leading dot
EndsWithNoDot(s, suffix) ==
    /\ Len(s) >= Len(suffix) - 1
    /\ SubSeq(s, Len(s) - Len(suffix) + 2, Len(s)) = Tail(suffix)

\* TString::EndsWith
EndsWith(s, suffix) ==
    /\ Len(s) >= Len(suffix)
    /\ SubSeq(s, Len(s) - Len(suffix) + 1, Len(s)) = suffix

\* the step gate, written identically at every use: !stepNum || stepNum >= k
StageActiveNoZero(s, k) == s >= k

\* the gate as "only step k", with 0 still meaning every step
StageActiveExact(s, k) == s = 0 \/ s = k

StageActive(s, k) == s = 0 \/ s >= k

\* dynamic_cast<C*>(TObject*): none of TH1I, TH2I, TH1F, TProfile2D derives
\* from another of them, so the cast succeeds exactly on the same class
DynCastOK(stored, wanted) == stored = wanted

Range(f) == { f[i] : i \in DOMAIN f }

(***************************************************************************)
(* Input columns.  kind "scalar" is a plain variable initialised to 0,     *)
(* kind "vector" a std::vector<float>* initialised to nullptr.             *)
(***************************************************************************)
ExpBranches ==
    << [col |-> "mu_average",       stage |-> 1, kind |-> "scalar"],
       [col |-> "NPV",              stage |-> 1, kind |-> "scalar"],
       [col |-> "EventWeight",      stage |-> 2, kind |-> "scalar"],
       [col |-> "RecoJets_R4_pt",   stage |-> 2, kind |-> "vector"],
       [col |-> "RecoJets_R4_eta",  stage |-> 2, kind |-> "vector"],
       [col |-> "RecoJets_R4_phi",  stage |-> 2, kind |-> "vector"],
       [col |-> "RecoJets_R4_m",    stage |-> 2, kind |-> "vector"],
       [col |-> "TruthJets_R4_pt",  stage |-> 2, kind |-> "vector"],
       [col |-> "TruthJets_R4_eta", stage |-> 2, kind |-> "vector"],
       [col |-> "TruthJets_R4_phi", stage |-> 2, kind |-> "vector"],
       [col |-> "TruthJets_R4_m",   stage |-> 2, kind |-> "vector"],
       [col |-> "RecoJets_R4_jvf",  stage |-> 4, kind |-> "vector"],
       [col |-> "TrackJets_R4_pt",  stage |-> 4, kind |-> "vector"],
       [col |-> "TrackJets_R4_eta", stage |-> 4, kind |-> "vector"],
       [col |-> "TrackJets_R4_phi", stage |-> 4, kind |-> "vector"],
       [col |-> "TrackJets_R4_m",   stage |-> 4, kind |-> "vector"] >>

\* isTruth = false: jetTypeString = "RecoJets", inputTypeString = "Clusters"
GroomBranches ==
    << [col |-> "mu_average",             stage |-> 1, kind |-> "scalar"],
       [col |-> "NPV",                    stage |-> 1, kind |-> "scalar"],
       [col |-> "EventWeight",            stage |-> 2, kind |-> "scalar"],
       [col |-> "RecoJets_R10_pt",        stage |-> 2, kind |-> "vector"],
       [col |-> "RecoJets_R10_m",         stage |-> 2, kind |-> "vector"],
       [col |-> "RecoJets_R10_Trimmed_pt", stage |-> 2, kind |-> "vector"],
       [col |-> "RecoJets_R10_Trimmed_m", stage |-> 2, kind |-> "vector"],
       [col |-> "Clusters_pt",            stage |-> 3, kind |-> "vector"],
       [col |-> "Clusters_eta",           stage |-> 3, kind |-> "vector"],
       [col |-> "Clusters_phi",           stage |-> 3, kind |-> "vector"],
       [col |-> "Clusters_m",             stage |-> 3, kind |-> "vector"] >>

Branches(p) == IF p = "jetRecoExp" THEN ExpBranches ELSE GroomBranches

AllCols(p) == { b.col : b \in Range(Branches(p)) }

\* a wiring that ignores the step number (every column is requested)
WiredColsAll(p, s) == AllCols(p)

\* the columns whose SetBranchStatus(...,1) / SetBranchAddress calls run
WiredCols(p, s) ==
    { b.col : b \in { x \in Range(Branches(p)) : StageActive(s, x.stage) } }

(***************************************************************************)
(* The inputs the model draws from.                                        *)
(***************************************************************************)
Str0 == << "0" >>
Str1 == << "1" >>
Str2 == << "2" >>
Str3 == << "3" >>
Str4 == << "4" >>
Str5 == << "5" >>
Str6 == << "6" >>
StrMinus1 == << "-", "1" >>
StrAbc == << "a", "b", "c" >>
StrEmpty == << >>
Str3x == << "3", "x" >>
StrTwo32 == << "4", "2", "9", "4", "9", "6", "7", "2", "9", "6" >>
StrTwo32Plus6 == << "4", "2", "9", "4", "9", "6", "7", "3", "0", "2" >>
StrTwo31 == << "2", "1", "4", "7", "4", "8", "3", "6", "4", "8" >>

StepArgs ==
    { Str0, Str1, Str2, Str3, Str4, Str5, Str6, StrMinus1, StrAbc, StrEmpty,
      Str3x, StrTwo32, StrTwo32Plus6, StrTwo31 }

ChainStepArgs == { Str0, Str1, Str2, Str3, Str4, Str5 }

NameRoot == << "o", ".", "r", "o", "o", "t" >>
NameRoo == << "o", ".", "r", "o", "o" >>
NamePdf == << "p", ".", "p", "d", "f" >>
NamePng == << "p", ".", "p", "n", "g" >>
NameBarePdf == << "p", "d", "f" >>

PlotsOutNames == { NamePdf, NamePng, NameBarePdf }
PlotsInNames == { NameRoot, NameRoo }

\* entries of the input tree of jetRecoExp, one field per column; pT in MeV
\* as in the tree, eta, phi and JVF in thousandths
ExpEvents ==
    { \* one truth jet and one reco jet close to it, weight 2
      [mu_average |-> 20, NPV |-> 10, EventWeight |-> 2,
       RecoJets_R4_pt |-> << 45000 >>, RecoJets_R4_eta |-> << 50 >>,
       RecoJets_R4_phi |-> << 50 >>, RecoJets_R4_jvf |-> << 900 >>,
       TruthJets_R4_pt |-> << 50000 >>, TruthJets_R4_eta |-> << 0 >>,
       TruthJets_R4_phi |-> << 0 >>,
       TrackJets_R4_pt |-> << 40000 >>, TrackJets_R4_eta |-> << 0 >>,
       TrackJets_R4_phi |-> << 0 >>],
      \* no reco jet, one truth jet
      [mu_average |-> 20, NPV |-> 10, EventWeight |-> 1,
       RecoJets_R4_pt |-> << >>, RecoJets_R4_eta |-> << >>,
       RecoJets_R4_phi |-> << >>, RecoJets_R4_jvf |-> << >>,
       TruthJets_R4_pt |-> << 50000 >>, TruthJets_R4_eta |-> << 0 >>,
       TruthJets_R4_phi |-> << 0 >>,
       TrackJets_R4_pt |-> << >>, TrackJets_R4_eta |-> << >>,
       TrackJets_R4_phi |-> << >>],
      \* two reco jets, no truth jet
      [mu_average |-> 40, NPV |-> 15, EventWeight |-> 2,
       RecoJets_R4_pt |-> << 45000, 30000 >>, RecoJets_R4_eta |-> << 0, 1000 >>,
       RecoJets_R4_phi |-> << 0, 1000 >>, RecoJets_R4_jvf |-> << 900, 100 >>,
       TruthJets_R4_pt |-> << >>, TruthJets_R4_eta |-> << >>,
       TruthJets_R4_phi |-> << >>,
       TrackJets_R4_pt |-> << >>, TrackJets_R4_eta |-> << >>,
       TrackJets_R4_phi |-> << >>],
      \* no jet at all
      [mu_average |-> 40, NPV |-> 15, EventWeight |-> 1,
       RecoJets_R4_pt |-> << >>, RecoJets_R4_eta |-> << >>,
       RecoJets_R4_phi |-> << >>, RecoJets_R4_jvf |-> << >>,
       TruthJets_R4_pt |-> << >>, TruthJets_R4_eta |-> << >>,
       TruthJets_R4_phi |-> << >>,
       TrackJets_R4_pt |-> << >>, TrackJets_R4_eta |-> << >>,
       TrackJets_R4_phi |-> << >>],
      \* leading truth and reco jets on either side of phi = +-pi, above
      \* the 100 GeV floor
      [mu_average |-> 55, NPV |-> 20, EventWeight |-> 1,
       RecoJets_R4_pt |-> << 110000 >>, RecoJets_R4_eta |-> << 0 >>,
       RecoJets_R4_phi |-> << -3131 >>, RecoJets_R4_jvf |-> << 900 >>,
       TruthJets_R4_pt |-> << 120000 >>, TruthJets_R4_eta |-> << 0 >>,
       TruthJets_R4_phi |-> << 3131 >>,
       TrackJets_R4_pt |-> << 100000 >>, TrackJets_R4_eta |-> << 0 >>,
       TrackJets_R4_phi |-> << 3131 >>],
      \* leading truth and reco jets exactly 0.3 apart; the second reco jet
      \* and the track jet sit exactly on the 20 GeV floor
      [mu_average |-> 20, NPV |-> 10, EventWeight |-> 2,
       RecoJets_R4_pt |-> << 50000, 20000 >>, RecoJets_R4_eta |-> << 300, 0 >>,
       RecoJets_R4_phi |-> << 0, 0 >>, RecoJets_R4_jvf |-> << 900, 900 >>,
       TruthJets_R4_pt |-> << 50000 >>, TruthJets_R4_eta |-> << 0 >>,
       TruthJets_R4_phi |-> << 0 >>,
       TrackJets_R4_pt |-> << 20000 >>, TrackJets_R4_eta |-> << 0 >>,
       TrackJets_R4_phi |-> << 0 >>] }

GroomEvents ==
    { [mu_average |-> 20, NPV |-> 10, EventWeight |-> 2,
       RecoJets_R10_pt |-> << 500000 >>, RecoJets_R10_m |-> << 80000 >>,
       RecoJets_R10_Trimmed_pt |-> << 450000 >>, RecoJets_R10_Trimmed_m |-> << 70000 >>,
       Clusters_pt |-> << 300000, 200000, 20000 >>, Clusters_eta |-> << 0, 0, 500 >>,
       Clusters_phi |-> << 0, 0, 0 >>, Clusters_m |-> << 0, 0, 0 >>],
      [mu_average |-> 20, NPV |-> 10, EventWeight |-> 1,
       RecoJets_R10_pt |-> << 500000 >>, RecoJets_R10_m |-> << 80000 >>,
       RecoJets_R10_Trimmed_pt |-> << 300000 >>, RecoJets_R10_Trimmed_m |-> << 60000 >>,
       Clusters_pt |-> << 200000, 300000 >>, Clusters_eta |-> << 0, 3000 >>,
       Clusters_phi |-> << 0, 0 >>, Clusters_m |-> << 0, 0 >>],
      [mu_average |-> 40, NPV |-> 15, EventWeight |-> 2,
       RecoJets_R10_pt |-> << 400000 >>, RecoJets_R10_m |-> << 50000 >>,
       RecoJets_R10_Trimmed_pt |-> << 400000 >>, RecoJets_R10_Trimmed_m |-> << 50000 >>,
       Clusters_pt |-> << >>, Clusters_eta |-> << >>,
       Clusters_phi |-> << >>, Clusters_m |-> << >>],
      [mu_average |-> 40, NPV |-> 15, EventWeight |-> 1,
       RecoJets_R10_pt |-> << 500000 >>, RecoJets_R10_m |-> << 80000 >>,
       RecoJets_R10_Trimmed_pt |-> << >>, RecoJets_R10_Trimmed_m |-> << >>,
       Clusters_pt |-> << 300000 >>, Clusters_eta |-> << 0 >>,
       Clusters_phi |-> << 0 >>, Clusters_m |-> << 0 >>],
      [mu_average |-> 20, NPV |-> 10, EventWeight |-> 1,
       RecoJets_R10_pt |-> << >>, RecoJets_R10_m |-> << >>,
       RecoJets_R10_Trimmed_pt |-> << >>, RecoJets_R10_Trimmed_m |-> << >>,
       Clusters_pt |-> << >>, Clusters_eta |-> << >>,
       Clusters_phi |-> << >>, Clusters_m |-> << >>] }

Events(p) == IF p = "jetRecoExp" THEN ExpEvents ELSE GroomEvents

\* the trees the input file may hold: every column, or up to MaxMissing absent
TreeColSets(p) ==
    { AllCols(p) \ m : m \in { x \in SUBSET AllCols(p) : Cardinality(x) <= MaxMissing } }

ExpCreated ==
    { [name |-> "Step1_mu", type |-> "TH1I", stage |-> 1],
      [name |-> "Step1_npv", type |-> "TH1I", stage |-> 1],
      [name |-> "Step1_mu_npv", type |-> "TH2I", stage |-> 1],
      [name |-> "Step2_RecoJet_pt_noweight", type |-> "TH1F", stage |-> 2],
      [name |-> "Step2_RecoJet_pt", type |-> "TH1F", stage |-> 2],
      [name |-> "Step2_TruthJet_pt_noweight", type |-> "TH1F", stage |-> 2],
      [name |-> "Step2_TruthJet_pt", type |-> "TH1F", stage |-> 2],
      [name |-> "Step3_RecoJet_njets_lowmu", type |-> "TH1F", stage |-> 3],
      [name |-> "Step3_RecoJet_njets_midmu", type |-> "TH1F", stage |-> 3],
      [name |-> "Step3_RecoJet_njets_highmu", type |-> "TH1F", stage |-> 3],
      [name |-> "Step3_TruthJet_njets_lowmu", type |-> "TH1F", stage |-> 3],
      [name |-> "Step3_TruthJet_njets_midmu", type |-> "TH1F", stage |-> 3],
      [name |-> "Step3_TruthJet_njets_highmu", type |-> "TH1F", stage |-> 3],
      [name |-> "Step3_RecoJets_njets_2D", type |-> "TProfile2D", stage |-> 3],
      [name |-> "Step3_TruthJets_njets_2D", type |-> "TProfile2D", stage |-> 3],
      [name |-> "Step4_RecoJet_jvf_pt20", type |-> "TH1F", stage |-> 4],
      [name |-> "Step4_RecoJet_jvf_pt60", type |-> "TH1F", stage |-> 4],
      [name |-> "Step4_RecoJet_jvf_pt100", type |-> "TH1F", stage |-> 4],
      [name |-> "Step4_RecoJet_pt_jvf", type |-> "TH1F", stage |-> 4],
      [name |-> "Step4_TrackJet_pt", type |-> "TH1F", stage |-> 4],
      [name |-> "Step4_TrackJet_njets_lowmu", type |-> "TH1F", stage |-> 4],
      [name |-> "Step4_TrackJet_njets_midmu", type |-> "TH1F", stage |-> 4],
      [name |-> "Step4_TrackJet_njets_highmu", type |-> "TH1F", stage |-> 4],
      [name |-> "Step4_TrackJets_njets_2D", type |-> "TProfile2D", stage |-> 4],
      [name |-> "Step5_DRtruth_reco", type |-> "TH1F", stage |-> 5],
      [name |-> "Step5_DRtruth_reco_jvf", type |-> "TH1F", stage |-> 5],
      [name |-> "Step5_DRtruth_track", type |-> "TH1F", stage |-> 5],
      [name |-> "Step5_response_reco_pt20", type |-> "TH1F", stage |-> 5],
      [name |-> "Step5_response_reco_pt100", type |-> "TH1F", stage |-> 5],
      [name |-> "Step5_response_reco_pt1000", type |-> "TH1F", stage |-> 5],
      [name |-> "Step5_response_track_pt20", type |-> "TH1F", stage |-> 5],
      [name |-> "Step5_response_track_pt100", type |-> "TH1F", stage |-> 5],
      [name |-> "Step5_response_track_pt1000", type |-> "TH1F", stage |-> 5] }

ExpWrites ==
    << [name |-> "Step1_mu", type |-> "TH1I", stage |-> 1],
       [name |-> "Step1_npv", type |-> "TH1I", stage |-> 1],
       [name |-> "Step1_mu_npv", type |-> "TH2I", stage |-> 1],
       [name |-> "Step2_RecoJet_pt_noweight", type |-> "TH1F", stage |-> 2],
       [name |-> "Step2_RecoJet_pt", type |-> "TH1F", stage |-> 2],
       [name |-> "Step2_TruthJet_pt_noweight", type |-> "TH1F", stage |-> 2],
       [name |-> "Step2_TruthJet_pt", type |-> "TH1F", stage |-> 2],
       [name |-> "Step3_RecoJet_njets_lowmu", type |-> "TH1F", stage |-> 3],
       [name |-> "Step3_RecoJet_njets_midmu", type |-> "TH1F", stage |-> 3],
       [name |-> "Step3_RecoJet_njets_highmu", type |-> "TH1F", stage |-> 3],
       [name |-> "Step3_TruthJet_njets_lowmu", type |-> "TH1F", stage |-> 3],
       [name |-> "Step3_TruthJet_njets_midmu", type |-> "TH1F", stage |-> 3],
       [name |-> "Step3_TruthJet_njets_highmu", type |-> "TH1F", stage |-> 3],
       [name |-> "Step3_RecoJets_njets_2D", type |-> "TProfile2D", stage |-> 3],
       [name |-> "Step3_TruthJets_njets_2D", type |-> "TProfile2D", stage |-> 3],
       [name |-> "Step4_RecoJet_jvf_pt20", type |-> "TH1F", stage |-> 4],
       [name |-> "Step4_RecoJet_jvf_pt60", type |-> "TH1F", stage |-> 4],
       [name |-> "Step4_RecoJet_jvf_pt100", type |-> "TH1F", stage |-> 4],
       [name |-> "Step4_RecoJet_pt_jvf", type |-> "TH1F", stage |-> 4],
       [name |-> "Step4_TrackJet_pt", type |-> "TH1F", stage |-> 4],
       [name |-> "Step4_TrackJet_njets_lowmu", type |-> "TH1F", stage |-> 4],
       [name |-> "Step4_TrackJet_njets_midmu", type |-> "TH1F", stage |-> 4],
       [name |-> "Step4_TrackJet_njets_highmu", type |-> "TH1F", stage |-> 4],
       [name |-> "Step4_TrackJets_njets_2D", type |-> "TProfile2D", stage |-> 4],
       [name |-> "Step5_DRtruth_reco", type |-> "TH1F", stage |-> 5],
       [name |-> "Step5_DRtruth_reco_jvf", type |-> "TH1F", stage |-> 5],
       [name |-> "Step5_DRtruth_track", type |-> "TH1F", stage |-> 5],
       [name |-> "Step5_response_reco_pt20", type |-> "TH1F", stage |-> 5],
       [name |-> "Step5_response_reco_pt100", type |-> "TH1F", stage |-> 5],
       [name |-> "Step5_response_reco_pt1000", type |-> "TH1F", stage |-> 5],
       [name |-> "Step5_response_track_pt20", type |-> "TH1F", stage |-> 5],
       [name |-> "Step5_response_track_pt100", type |-> "TH1F", stage |-> 5],
       [name |-> "Step5_response_track_pt1000", type |-> "TH1F", stage |-> 5] >>

GroomCreated ==
    { [name |-> "Step1_mu", type |-> "TH1I", stage |-> 1],
      [name |-> "Step1_npv", type |-> "TH1I", stage |-> 1],
      [name |-> "Step2_UngroomPt_noweight", type |-> "TH1F", stage |-> 2],
      [name |-> "Step2_UngroomPt", type |-> "TH1F", stage |-> 2],
      [name |-> "Step2_TrimmedPt", type |-> "TH1F", stage |-> 2],
      [name |-> "Step2_UngroomMass", type |-> "TH1F", stage |-> 2],
      [name |-> "Step2_TrimmedMass", type |-> "TH1F", stage |-> 2],
      [name |-> "Step3_MyUngroomPt_noweight", type |-> "TH1F", stage |-> 3],
      [name |-> "Step3_MyUngroomPt", type |-> "TH1F", stage |-> 3],
      [name |-> "Step3_MyTrimmedPt_noweight", type |-> "TH1F", stage |-> 3],
      [name |-> "Step3_MyTrimmedPt", type |-> "TH1F", stage |-> 3],
      [name |-> "Step4_MyPrunedPt", type |-> "TH1F", stage |-> 4],
      [name |-> "Step4_MyPrunedMass", type |-> "TH1F", stage |-> 4],
      [name |-> "Step4_MySDPt", type |-> "TH1F", stage |-> 4],
      [name |-> "Step4_MySDMass", type |-> "TH1F", stage |-> 4],
      [name |-> "Step4_MyRSDPt", type |-> "TH1F", stage |-> 4],
      [name |-> "Step4_MyRSDMass", type |-> "TH1F", stage |-> 4],
      [name |-> "Step4_MyBUSDPt", type |-> "TH1F", stage |-> 4],
      [name |-> "Step4_MyBUSDMass", type |-> "TH1F", stage |-> 4],
      [name |-> "Step4_MyBUSDTPt", type |-> "TH1F", stage |-> 4],
      [name |-> "Step4_MyBUSDTMass", type |-> "TH1F", stage |-> 4],
      [name |-> "Step5_Ungroomed_D2", type |-> "TH1F", stage |-> 5],
      [name |-> "Step5_Ungroomed_Tau32", type |-> "TH1F", stage |-> 5],
      [name |-> "Step5_Trimmed_D2", type |-> "TH1F", stage |-> 5],
      [name |-> "Step5_Trimmed_Tau32", type |-> "TH1F", stage |-> 5],
      [name |-> "Step5_Pruned_D2", type |-> "TH1F", stage |-> 5],
      [name |-> "Step5_Pruned_Tau32", type |-> "TH1F", stage |-> 5],
      [name |-> "Step5_SD_D2", type |-> "TH1F", stage |-> 5],
      [name |-> "Step5_SD_Tau32", type |-> "TH1F", stage |-> 5],
      [name |-> "Step5_RSD_D2", type |-> "TH1F", stage |-> 5],
      [name |-> "Step5_RSD_Tau32", type |-> "TH1F", stage |-> 5],
      [name |-> "Step5_BUSD_D2", type |-> "TH1F", stage |-> 5],
      [name |-> "Step5_BUSD_Tau32", type |-> "TH1F", stage |-> 5],
      [name |-> "Step5_BUSDT_D2", type |-> "TH1F", stage |-> 5],
      [name |-> "Step5_BUSDT_Tau32", type |-> "TH1F", stage |-> 5] }

GroomWrites ==
    << [name |-> "Step1_mu", type |-> "TH1I", stage |-> 1],
       [name |-> "Step1_npv", type |-> "TH1I", stage |-> 1],
       [name |-> "Step2_UngroomPt_noweight", type |-> "TH1F", stage |-> 2],
       [name |-> "Step2_UngroomPt", type |-> "TH1F", stage |-> 2],
       [name |-> "Step2_TrimmedPt", type |-> "TH1F", stage |-> 2],
       [name |-> "Step2_UngroomMass", type |-> "TH1F", stage |-> 2],
       [name |-> "Step2_TrimmedMass", type |-> "TH1F", stage |-> 2],
       [name |-> "Step3_MyUngroomPt_noweight", type |-> "TH1F", stage |-> 3],
       [name |-> "Step3_MyUngroomPt", type |-> "TH1F", stage |-> 3],
       [name |-> "Step3_MyTrimmedPt_noweight", type |-> "TH1F", stage |-> 3],
       [name |-> "Step3_MyTrimmedPt", type |-> "TH1F", stage |-> 3],
       [name |-> "Step4_MyPrunedPt", type |-> "TH1F", stage |-> 4],
       [name |-> "Step4_MyPrunedMass", type |-> "TH1F", stage |-> 4],
       [name |-> "Step4_MySDPt", type |-> "TH1F", stage |-> 4],
       [name |-> "Step4_MySDMass", type |-> "TH1F", stage |-> 4],
       [name |-> "Step4_MyRSDPt", type |-> "TH1F", stage |-> 4],
       [name |-> "Step4_MyRSDMass", type |-> "TH1F", stage |-> 4],
       [name |-> "Step4_MyBUSDPt", type |-> "TH1F", stage |-> 4],
       [name |-> "Step4_MyBUSDMass", type |-> "TH1F", stage |-> 4],
       [name |-> "Step4_MyBUSDTPt", type |-> "TH1F", stage |-> 4],
       [name |-> "Step4_MyBUSDTMass", type |-> "TH1F", stage |-> 4],
       [name |-> "Step5_Ungroomed_D2", type |-> "TH1F", stage |-> 5],
       [name |-> "Step5_Ungroomed_Tau32", type |-> "TH1F", stage |-> 5],
       [name |-> "Step5_Trimmed_D2", type |-> "TH1F", stage |-> 5],
       [name |-> "Step5_Trimmed_Tau32", type |-> "TH1F", stage |-> 5],
       [name |-> "Step5_Pruned_D2", type |-> "TH1F", stage |-> 5],
       [name |-> "Step5_Pruned_Tau32", type |-> "TH1F", stage |-> 5],
       [name |-> "Step5_SD_D2", type |-> "TH1F", stage |-> 5],
       [name |-> "Step5_SD_Tau32", type |-> "TH1F", stage |-> 5],
       [name |-> "Step5_RSD_D2", type |-> "TH1F", stage |-> 5],
       [name |-> "Step5_RSD_Tau32", type |-> "TH1F", stage |-> 5],
       [name |-> "Step5_BUSD_D2", type |-> "TH1F", stage |-> 5],
       [name |-> "Step5_BUSD_Tau32", type |-> "TH1F", stage |-> 5],
       [name |-> "Step5_BUSDT_D2", type |-> "TH1F", stage |-> 5],
       [name |-> "Step5_BUSDT_Tau32", type |-> "TH1F", stage |-> 5] >>

ExpPlotsGets ==
    << [name |-> "Step1_mu", type |-> "TH1I", stage |-> 1],
       [name |-> "Step1_npv", type |-> "TH1I", stage |-> 1],
       [name |-> "Step1_mu_npv", type |-> "TH2I", stage |-> 1],
       [name |-> "Step2_RecoJet_pt_noweight", type |-> "TH1F", stage |-> 2],
       [name |-> "Step2_RecoJet_pt", type |-> "TH1F", stage |-> 2],
       [name |-> "Step2_TruthJet_pt_noweight", type |-> "TH1F", stage |-> 2],
       [name |-> "Step2_TruthJet_pt", type |-> "TH1F", stage |-> 2],
       [name |-> "Step3_RecoJet_njets_lowmu", type |-> "TH1F", stage |-> 3],
       [name |-> "Step3_RecoJet_njets_midmu", type |-> "TH1F", stage |-> 3],
       [name |-> "Step3_RecoJet_njets_highmu", type |-> "TH1F", stage |-> 3],
       [name |-> "Step3_TruthJet_njets_lowmu", type |-> "TH1F", stage |-> 3],
       [name |-> "Step3_TruthJet_njets_midmu", type |-> "TH1F", stage |-> 3],
       [name |-> "Step3_TruthJet_njets_highmu", type |-> "TH1F", stage |-> 3],
       [name |-> "Step3_RecoJets_njets_2D", type |-> "TProfile2D", stage |-> 3],
       [name |-> "Step3_TruthJets_njets_2D", type |-> "TProfile2D", stage |-> 3],
       [name |-> "Step4_RecoJet_jvf_pt20", type |-> "TH1F", stage |-> 4],
       [name |-> "Step4_RecoJet_jvf_pt60", type |-> "TH1F", stage |-> 4],
       [name |-> "Step4_RecoJet_jvf_pt100", type |-> "TH1F", stage |-> 4],
       [name |-> "Step4_RecoJet_pt_jvf", type |-> "TH1F", stage |-> 4],
       [name |-> "Step4_TrackJet_pt", type |-> "TH1F", stage |-> 4],
       [name |-> "Step4_TrackJet_njets_lowmu", type |-> "TH1F", stage |-> 4],
       [name |-> "Step4_TrackJet_njets_midmu", type |-> "TH1F", stage |-> 4],
       [name |-> "Step4_TrackJet_njets_highmu", type |-> "TH1F", stage |-> 4],
       [name |-> "Step4_TrackJets_njets_2D", type |-> "TProfile2D", stage |-> 4],
       [name |-> "Step5_DRtruth_reco", type |-> "TH1F", stage |-> 5],
       [name |-> "Step5_DRtruth_reco_jvf", type |-> "TH1F", stage |-> 5],
       [name |-> "Step5_DRtruth_track", type |-> "TH1F", stage |-> 5],
       [name |-> "Step5_response_reco_pt20", type |-> "TH1F", stage |-> 5],
       [name |-> "Step5_response_reco_pt100", type |-> "TH1F", stage |-> 5],
       [name |-> "Step5_response_reco_pt1000", type |-> "TH1F", stage |-> 5],
       [name |-> "Step5_response_track_pt20", type |-> "TH1F", stage |-> 5],
       [name |-> "Step5_response_track_pt100", type |-> "TH1F", stage |-> 5],
       [name |-> "Step5_response_track_pt1000", type |-> "TH1F", stage |-> 5] >>

ExpPlotsNullChecks ==
    << { "Step1_mu", "Step1_npv", "Step1_mu_npv" },
       { "Step2_RecoJet_pt_noweight", "Step2_RecoJet_pt", "Step2_TruthJet_pt_noweight", "Step2_TruthJet_pt" },
       { "Step3_RecoJet_njets_lowmu", "Step3_RecoJet_njets_midmu", "Step3_RecoJet_njets_highmu", "Step3_TruthJet_njets_lowmu", "Step3_TruthJet_njets_midmu", "Step3_TruthJet_njets_highmu", "Step3_RecoJets_njets_2D", "Step3_TruthJets_njets_2D" },
       { "Step4_RecoJet_jvf_pt20", "Step4_RecoJet_jvf_pt60", "Step4_RecoJet_jvf_pt100", "Step4_TrackJet_njets_lowmu", "Step4_TrackJet_njets_midmu", "Step4_TrackJet_njets_highmu", "Step2_TruthJet_pt", "Step4_TrackJets_njets_2D" },
       { "Step5_DRtruth_reco", "Step5_DRtruth_reco_jvf", "Step5_DRtruth_track", "Step5_response_reco_pt20", "Step5_response_reco_pt100", "Step5_response_reco_pt1000", "Step5_response_track_pt20", "Step5_response_track_pt100", "Step5_response_track_pt1000" } >>

GroomPlotsGets ==
    << [name |-> "Step1_mu", type |-> "TH1I", stage |-> 1],
       [name |-> "Step1_npv", type |-> "TH1I", stage |-> 1],
       [name |-> "Step2_UngroomPt_noweight", type |-> "TH1F", stage |-> 2],
       [name |-> "Step2_UngroomPt", type |-> "TH1F", stage |-> 2],
       [name |-> "Step2_TrimmedPt", type |-> "TH1F", stage |-> 2],
       [name |-> "Step2_UngroomMass", type |-> "TH1F", stage |-> 2],
       [name |-> "Step2_TrimmedMass", type |-> "TH1F", stage |-> 2],
       [name |-> "Step3_MyUngroomPt_noweight", type |-> "TH1F", stage |-> 3],
       [name |-> "Step3_MyUngroomPt", type |-> "TH1F", stage |-> 3],
       [name |-> "Step3_MyTrimmedPt_noweight", type |-> "TH1F", stage |-> 3],
       [name |-> "Step3_MyTrimmedPt", type |-> "TH1F", stage |-> 3],
       [name |-> "Step4_MyPrunedPt", type |-> "TH1F", stage |-> 4],
       [name |-> "Step4_MyPrunedMass", type |-> "TH1F", stage |-> 4],
       [name |-> "Step4_MySDPt", type |-> "TH1F", stage |-> 4],
       [name |-> "Step4_MySDMass", type |-> "TH1F", stage |-> 4],
       [name |-> "Step4_MyRSDPt", type |-> "TH1F", stage |-> 4],
       [name |-> "Step4_MyRSDMass", type |-> "TH1F", stage |-> 4],
       [name |-> "Step4_MyBUSDPt", type |-> "TH1F", stage |-> 4],
       [name |-> "Step4_MyBUSDMass", type |-> "TH1F", stage |-> 4],
       [name |-> "Step4_MyBUSDTPt", type |-> "TH1F", stage |-> 4],
       [name |-> "Step4_MyBUSDTMass", type |-> "TH1F", stage |-> 4],
       [name |-> "Step5_Ungroomed_D2", type |-> "TH1F", stage |-> 5],
       [name |-> "Step5_Ungroomed_Tau32", type |-> "TH1F", stage |-> 5],
       [name |-> "Step5_Trimmed_D2", type |-> "TH1F", stage |-> 5],
       [name |-> "Step5_Trimmed_Tau32", type |-> "TH1F", stage |-> 5],
       [name |-> "Step5_Pruned_D2", type |-> "TH1F", stage |-> 5],
       [name |-> "Step5_Pruned_Tau32", type |-> "TH1F", stage |-> 5],
       [name |-> "Step5_SD_D2", type |-> "TH1F", stage |-> 5],
       [name |-> "Step5_SD_Tau32", type |-> "TH1F", stage |-> 5],
       [name |-> "Step5_RSD_D2", type |-> "TH1F", stage |-> 5],
       [name |-> "Step5_RSD_Tau32", type |-> "TH1F", stage |-> 5],
       [name |-> "Step5_BUSD_D2", type |-> "TH1F", stage |-> 5],
       [name |-> "Step5_BUSD_Tau32", type |-> "TH1F", stage |-> 5],
       [name |-> "Step5_BUSDT_D2", type |-> "TH1F", stage |-> 5],
       [name |-> "Step5_BUSDT_Tau32", type |-> "TH1F", stage |-> 5] >>

GroomPlotsNullChecks ==
    << { "Step1_mu", "Step1_npv" },
       { "Step2_UngroomPt_noweight", "Step2_UngroomPt", "Step2_TrimmedPt", "Step2_UngroomMass", "Step2_TrimmedMass" },
       { "Step3_MyUngroomPt_noweight", "Step3_MyUngroomPt", "Step3_MyTrimmedPt_noweight", "Step3_MyTrimmedPt" },
       { "Step4_MyPrunedPt", "Step4_MyPrunedMass", "Step4_MySDPt", "Step4_MySDMass", "Step4_MyRSDPt", "Step4_MyRSDMass", "Step4_MyBUSDPt", "Step4_MyBUSDMass", "Step4_MyBUSDTPt", "Step4_MyBUSDTMass" },
       { "Step5_Ungroomed_D2", "Step5_Ungroomed_Tau32", "Step5_Trimmed_D2", "Step5_Trimmed_Tau32", "Step5_Pruned_D2", "Step5_Pruned_Tau32", "Step5_SD_D2", "Step5_SD_Tau32", "Step5_RSD_D2", "Step5_RSD_Tau32", "Step5_BUSD_D2", "Step5_BUSD_Tau32", "Step5_BUSDT_D2", "Step5_BUSDT_Tau32" } >>

ExpPlotsPages ==
    << [stage |-> 1, line |-> 236,
        ops |-> << <<"Style", "Step1_mu">>,
                  <<"Draw", "Step1_mu">> >>],
       [stage |-> 1, line |-> 247,
        ops |-> << <<"Style", "Step1_npv">>,
                  <<"Draw", "Step1_npv">> >>],
       [stage |-> 1, line |-> 257,
        ops |-> << <<"Style", "Step1_mu_npv">>,
                  <<"Draw", "Step1_mu_npv">> >>],
       [stage |-> 2, line |-> 287,
        ops |-> << <<"Style", "Step2_TruthJet_pt_noweight">>,
                  <<"scaleMeVToGeV", "Step2_TruthJet_pt_noweight">>,
                  <<"Style", "Step2_TruthJet_pt_noweight">>,
                  <<"Draw", "Step2_TruthJet_pt_noweight">>,
                  <<"Style", "Step2_RecoJet_pt_noweight">>,
                  <<"scaleMeVToGeV", "Step2_RecoJet_pt_noweight">>,
                  <<"Draw", "Step2_RecoJet_pt_noweight">> >>],
       [stage |-> 2, line |-> 315,
        ops |-> << <<"Style", "Step2_TruthJet_pt">>,
                  <<"scaleMeVToGeV", "Step2_TruthJet_pt">>,
                  <<"Style", "Step2_TruthJet_pt">>,
                  <<"Draw", "Step2_TruthJet_pt">>,
                  <<"Style", "Step2_RecoJet_pt">>,
                  <<"scaleMeVToGeV", "Step2_RecoJet_pt">>,
                  <<"Draw", "Step2_RecoJet_pt">> >>],
       [stage |-> 3, line |-> 351,
        ops |-> << <<"Scale", "Step3_RecoJet_njets_highmu">>,
                  <<"Style", "Step3_RecoJet_njets_highmu">>,
                  <<"Draw", "Step3_RecoJet_njets_highmu">>,
                  <<"Scale", "Step3_RecoJet_njets_midmu">>,
                  <<"Style", "Step3_RecoJet_njets_midmu">>,
                  <<"Draw", "Step3_RecoJet_njets_midmu">>,
                  <<"Scale", "Step3_RecoJet_njets_lowmu">>,
                  <<"Style", "Step3_RecoJet_njets_lowmu">>,
                  <<"Draw", "Step3_RecoJet_njets_lowmu">> >>],
       [stage |-> 3, line |-> 384,
        ops |-> << <<"Scale", "Step3_TruthJet_njets_highmu">>,
                  <<"Style", "Step3_TruthJet_njets_highmu">>,
                  <<"Draw", "Step3_TruthJet_njets_highmu">>,
                  <<"Scale", "Step3_TruthJet_njets_midmu">>,
                  <<"Style", "Step3_TruthJet_njets_midmu">>,
                  <<"Draw", "Step3_TruthJet_njets_midmu">>,
                  <<"Scale", "Step3_TruthJet_njets_lowmu">>,
                  <<"Style", "Step3_TruthJet_njets_lowmu">>,
                  <<"Draw", "Step3_TruthJet_njets_lowmu">> >>],
       [stage |-> 3, line |-> 398,
        ops |-> << <<"Style", "Step3_RecoJets_njets_2D">>,
                  <<"Draw", "Step3_RecoJets_njets_2D">> >>],
       [stage |-> 3, line |-> 412,
        ops |-> << <<"Style", "Step3_TruthJets_njets_2D">>,
                  <<"Draw", "Step3_TruthJets_njets_2D">> >>],
       [stage |-> 4, line |-> 448,
        ops |-> << <<"Scale", "Step4_RecoJet_jvf_pt20">>,
                  <<"Style", "Step4_RecoJet_jvf_pt20">>,
                  <<"Draw", "Step4_RecoJet_jvf_pt20">>,
                  <<"Scale", "Step4_RecoJet_jvf_pt60">>,
                  <<"Style", "Step4_RecoJet_jvf_pt60">>,
                  <<"Draw", "Step4_RecoJet_jvf_pt60">>,
                  <<"Scale", "Step4_RecoJet_jvf_pt100">>,
                  <<"Style", "Step4_RecoJet_jvf_pt100">>,
                  <<"Draw", "Step4_RecoJet_jvf_pt100">> >>],
       [stage |-> 4, line |-> 471,
        ops |-> << <<"Style", "Step2_TruthJet_pt">>,
                  <<"Draw", "Step2_TruthJet_pt">>,
                  <<"Draw", "Step2_RecoJet_pt">>,
                  <<"Style", "Step4_RecoJet_pt_jvf">>,
                  <<"scaleMeVToGeV", "Step4_RecoJet_pt_jvf">>,
                  <<"Draw", "Step4_RecoJet_pt_jvf">> >>],
       [stage |-> 4, line |-> 504,
        ops |-> << <<"Scale", "Step4_TrackJet_njets_highmu">>,
                  <<"Style", "Step4_TrackJet_njets_highmu">>,
                  <<"Draw", "Step4_TrackJet_njets_highmu">>,
                  <<"Scale", "Step4_TrackJet_njets_midmu">>,
                  <<"Style", "Step4_TrackJet_njets_midmu">>,
                  <<"Draw", "Step4_TrackJet_njets_midmu">>,
                  <<"Scale", "Step4_TrackJet_njets_lowmu">>,
                  <<"Style", "Step4_TrackJet_njets_lowmu">>,
                  <<"Draw", "Step4_TrackJet_njets_lowmu">> >>],
       [stage |-> 4, line |-> 518,
        ops |-> << <<"Style", "Step4_TrackJets_njets_2D">>,
                  <<"Draw", "Step4_TrackJets_njets_2D">> >>],
       [stage |-> 4, line |-> 541,
        ops |-> << <<"Style", "Step2_TruthJet_pt">>,
                  <<"Draw", "Step2_TruthJet_pt">>,
                  <<"Draw", "Step4_RecoJet_pt_jvf">>,
                  <<"Style", "Step4_TrackJet_pt">>,
                  <<"scaleMeVToGeV", "Step4_TrackJet_pt">>,
                  <<"Draw", "Step4_TrackJet_pt">> >>],
       [stage |-> 5, line |-> 576,
        ops |-> << <<"Scale", "Step5_DRtruth_reco">>,
                  <<"Style", "Step5_DRtruth_reco">>,
                  <<"Draw", "Step5_DRtruth_reco">>,
                  <<"Scale", "Step5_DRtruth_reco_jvf">>,
                  <<"Style", "Step5_DRtruth_reco_jvf">>,
                  <<"Draw", "Step5_DRtruth_reco_jvf">>,
                  <<"Scale", "Step5_DRtruth_track">>,
                  <<"Style", "Step5_DRtruth_track">>,
                  <<"Draw", "Step5_DRtruth_track">> >>],
       [stage |-> 5, line |-> 619,
        ops |-> << <<"Scale", "Step5_response_reco_pt20">>,
                  <<"Style", "Step5_response_reco_pt20">>,
                  <<"Fit", "Step5_response_reco_pt20">>,
                  <<"Scale", "Step5_response_reco_pt100">>,
                  <<"Style", "Step5_response_reco_pt100">>,
                  <<"Fit", "Step5_response_reco_pt100">>,
                  <<"Scale", "Step5_response_reco_pt1000">>,
                  <<"Style", "Step5_response_reco_pt1000">>,
                  <<"Fit", "Step5_response_reco_pt1000">>,
                  <<"Style", "Step5_response_reco_pt20">>,
                  <<"Draw", "Step5_response_reco_pt20">>,
                  <<"Draw", "Step5_response_reco_pt100">>,
                  <<"Draw", "Step5_response_reco_pt1000">> >>],
       [stage |-> 5, line |-> 662,
        ops |-> << <<"Scale", "Step5_response_track_pt20">>,
                  <<"Style", "Step5_response_track_pt20">>,
                  <<"Fit", "Step5_response_track_pt20">>,
                  <<"Scale", "Step5_response_track_pt100">>,
                  <<"Style", "Step5_response_track_pt100">>,
                  <<"Fit", "Step5_response_track_pt100">>,
                  <<"Scale", "Step5_response_track_pt1000">>,
                  <<"Style", "Step5_response_track_pt1000">>,
                  <<"Fit", "Step5_response_track_pt1000">>,
                  <<"Style", "Step5_response_track_pt20">>,
                  <<"Draw", "Step5_response_track_pt20">>,
                  <<"Draw", "Step5_response_track_pt100">>,
                  <<"Draw", "Step5_response_track_pt1000">> >>] >>

GroomPlotsPages ==
    << [stage |-> 1, line |-> 242,
        ops |-> << <<"Style", "Step1_mu">>,
                  <<"Draw", "Step1_mu">> >>],
       [stage |-> 1, line |-> 253,
        ops |-> << <<"Style", "Step1_npv">>,
                  <<"Draw", "Step1_npv">> >>],
       [stage |-> 2, line |-> 270,
        ops |-> << <<"Style", "Step2_UngroomPt_noweight">>,
                  <<"scaleMeVToGeV", "Step2_UngroomPt_noweight">>,
                  <<"Style", "Step2_UngroomPt_noweight">>,
                  <<"Draw", "Step2_UngroomPt_noweight">> >>],
       [stage |-> 2, line |-> 298,
        ops |-> << <<"Style", "Step2_UngroomPt">>,
                  <<"scaleMeVToGeV", "Step2_UngroomPt">>,
                  <<"Style", "Step2_UngroomPt">>,
                  <<"Draw", "Step2_UngroomPt">>,
                  <<"Style", "Step2_TrimmedPt">>,
                  <<"scaleMeVToGeV", "Step2_TrimmedPt">>,
                  <<"Draw", "Step2_TrimmedPt">> >>],
       [stage |-> 2, line |-> 326,
        ops |-> << <<"Style", "Step2_UngroomMass">>,
                  <<"scaleMeVToGeV", "Step2_UngroomMass">>,
                  <<"Style", "Step2_UngroomMass">>,
                  <<"Draw", "Step2_UngroomMass">>,
                  <<"Style", "Step2_TrimmedMass">>,
                  <<"scaleMeVToGeV", "Step2_TrimmedMass">>,
                  <<"Draw", "Step2_TrimmedMass">> >>],
       [stage |-> 3, line |-> 352,
        ops |-> << <<"Style", "Step3_MyUngroomPt_noweight">>,
                  <<"scaleMeVToGeV", "Step3_MyUngroomPt_noweight">>,
                  <<"Style", "Step3_MyUngroomPt_noweight">>,
                  <<"Draw", "Step3_MyUngroomPt_noweight">>,
                  <<"Draw", "Step2_UngroomPt_noweight">> >>],
       [stage |-> 3, line |-> 377,
        ops |-> << <<"Style", "Step3_MyUngroomPt">>,
                  <<"scaleMeVToGeV", "Step3_MyUngroomPt">>,
                  <<"Style", "Step3_MyUngroomPt">>,
                  <<"Draw", "Step3_MyUngroomPt">>,
                  <<"Draw", "Step2_UngroomPt">> >>],
       [stage |-> 3, line |-> 403,
        ops |-> << <<"Style", "Step3_MyTrimmedPt">>,
                  <<"scaleMeVToGeV", "Step3_MyTrimmedPt">>,
                  <<"Style", "Step3_MyTrimmedPt">>,
                  <<"Draw", "Step3_MyTrimmedPt">>,
                  <<"Style", "Step2_TrimmedPt">>,
                  <<"Draw", "Step2_TrimmedPt">> >>],
       [stage |-> 4, line |-> 465,
        ops |-> << <<"Style", "Step3_MyUngroomPt">>,
                  <<"Draw", "Step3_MyUngroomPt">>,
                  <<"Style", "Step3_MyTrimmedPt">>,
                  <<"Draw", "Step3_MyTrimmedPt">>,
                  <<"Style", "Step4_MyPrunedPt">>,
                  <<"scaleMeVToGeV", "Step4_MyPrunedPt">>,
                  <<"Style", "Step4_MyPrunedPt">>,
                  <<"Draw", "Step4_MyPrunedPt">>,
                  <<"Style", "Step4_MySDPt">>,
                  <<"scaleMeVToGeV", "Step4_MySDPt">>,
                  <<"Style", "Step4_MySDPt">>,
                  <<"Draw", "Step4_MySDPt">>,
                  <<"Style", "Step4_MyRSDPt">>,
                  <<"scaleMeVToGeV", "Step4_MyRSDPt">>,
                  <<"Style", "Step4_MyRSDPt">>,
                  <<"Draw", "Step4_MyRSDPt">>,
                  <<"Style", "Step4_MyBUSDPt">>,
                  <<"scaleMeVToGeV", "Step4_MyBUSDPt">>,
                  <<"Style", "Step4_MyBUSDPt">>,
                  <<"Draw", "Step4_MyBUSDPt">>,
                  <<"Style", "Step4_MyBUSDTPt">>,
                  <<"scaleMeVToGeV", "Step4_MyBUSDTPt">>,
                  <<"Style", "Step4_MyBUSDTPt">>,
                  <<"Draw", "Step4_MyBUSDTPt">> >>],
       [stage |-> 4, line |-> 533,
        ops |-> << <<"Scale", "Step2_UngroomMass">>,
                  <<"Style", "Step2_UngroomMass">>,
                  <<"Draw", "Step2_UngroomMass">>,
                  <<"Scale", "Step2_TrimmedMass">>,
                  <<"Style", "Step2_TrimmedMass">>,
                  <<"Draw", "Step2_TrimmedMass">>,
                  <<"Scale", "Step4_MyPrunedMass">>,
                  <<"Style", "Step4_MyPrunedMass">>,
                  <<"scaleMeVToGeV", "Step4_MyPrunedMass">>,
                  <<"Style", "Step4_MyPrunedMass">>,
                  <<"Draw", "Step4_MyPrunedMass">>,
                  <<"Scale", "Step4_MySDMass">>,
                  <<"Style", "Step4_MySDMass">>,
                  <<"scaleMeVToGeV", "Step4_MySDMass">>,
                  <<"Style", "Step4_MySDMass">>,
                  <<"Draw", "Step4_MySDMass">>,
                  <<"Scale", "Step4_MyRSDMass">>,
                  <<"Style", "Step4_MyRSDMass">>,
                  <<"scaleMeVToGeV", "Step4_MyRSDMass">>,
                  <<"Style", "Step4_MyRSDMass">>,
                  <<"Draw", "Step4_MyRSDMass">>,
                  <<"Scale", "Step4_MyBUSDMass">>,
                  <<"Style", "Step4_MyBUSDMass">>,
                  <<"scaleMeVToGeV", "Step4_MyBUSDMass">>,
                  <<"Style", "Step4_MyBUSDMass">>,
                  <<"Draw", "Step4_MyBUSDMass">>,
                  <<"Scale", "Step4_MyBUSDTMass">>,
                  <<"Style", "Step4_MyBUSDTMass">>,
                  <<"scaleMeVToGeV", "Step4_MyBUSDTMass">>,
                  <<"Style", "Step4_MyBUSDTMass">>,
                  <<"Draw", "Step4_MyBUSDTMass">> >>],
       [stage |-> 5, line |-> 593,
        ops |-> << <<"Scale", "Step5_Ungroomed_D2">>,
                  <<"Style", "Step5_Ungroomed_D2">>,
                  <<"Draw", "Step5_Ungroomed_D2">>,
                  <<"Scale", "Step5_Trimmed_D2">>,
                  <<"Style", "Step5_Trimmed_D2">>,
                  <<"Draw", "Step5_Trimmed_D2">>,
                  <<"Scale", "Step5_Pruned_D2">>,
                  <<"Style", "Step5_Pruned_D2">>,
                  <<"Draw", "Step5_Pruned_D2">>,
                  <<"Scale", "Step5_SD_D2">>,
                  <<"Style", "Step5_SD_D2">>,
                  <<"Draw", "Step5_SD_D2">>,
                  <<"Scale", "Step5_RSD_D2">>,
                  <<"Style", "Step5_RSD_D2">>,
                  <<"Draw", "Step5_RSD_D2">>,
                  <<"Scale", "Step5_BUSD_D2">>,
                  <<"Style", "Step5_BUSD_D2">>,
                  <<"Draw", "Step5_BUSD_D2">>,
                  <<"Scale", "Step5_BUSDT_D2">>,
                  <<"Style", "Step5_BUSDT_D2">>,
                  <<"Draw", "Step5_BUSDT_D2">> >>],
       [stage |-> 5, line |-> 650,
        ops |-> << <<"Scale", "Step5_Ungroomed_Tau32">>,
                  <<"Style", "Step5_Ungroomed_Tau32">>,
                  <<"Draw", "Step5_Ungroomed_Tau32">>,
                  <<"Scale", "Step5_Trimmed_Tau32">>,
                  <<"Style", "Step5_Trimmed_Tau32">>,
                  <<"Draw", "Step5_Trimmed_Tau32">>,
                  <<"Scale", "Step5_Pruned_Tau32">>,
                  <<"Style", "Step5_Pruned_Tau32">>,
                  <<"Draw", "Step5_Pruned_Tau32">>,
                  <<"Scale", "Step5_SD_Tau32">>,
                  <<"Style", "Step5_SD_Tau32">>,
                  <<"Draw", "Step5_SD_Tau32">>,
                  <<"Scale", "Step5_RSD_Tau32">>,
                  <<"Style", "Step5_RSD_Tau32">>,
                  <<"Draw", "Step5_RSD_Tau32">>,
                  <<"Scale", "Step5_BUSD_Tau32">>,
                  <<"Style", "Step5_BUSD_Tau32">>,
                  <<"Draw", "Step5_BUSD_Tau32">>,
                  <<"Scale", "Step5_BUSDT_Tau32">>,
                  <<"Style", "Step5_BUSDT_Tau32">>,
                  <<"Draw", "Step5_BUSDT_Tau32">> >>] >>

\* the binning each histogram of jetRecoExp is constructed with: nx bins
\* over xlo/den .. xhi/den, and for the two-dimensional ones ny bins over
\* ylo .. yhi (ny = 0 otherwise)
ExpAxes ==
    { [name |-> "Step1_mu", nx |-> 90, xlo |-> 0, xhi |-> 90, den |-> 1, ny |-> 0, ylo |-> 0, yhi |-> 0],
      [name |-> "Step1_npv", nx |-> 60, xlo |-> 0, xhi |-> 60, den |-> 1, ny |-> 0, ylo |-> 0, yhi |-> 0],
      [name |-> "Step1_mu_npv", nx |-> 90, xlo |-> 0, xhi |-> 90, den |-> 1, ny |-> 60, ylo |-> 0, yhi |-> 60],
      [name |-> "Step2_RecoJet_pt_noweight", nx |-> 199, xlo |-> 10000, xhi |-> 2000000, den |-> 1, ny |-> 0, ylo |-> 0, yhi |-> 0],
      [name |-> "Step2_RecoJet_pt", nx |-> 199, xlo |-> 10000, xhi |-> 2000000, den |-> 1, ny |-> 0, ylo |-> 0, yhi |-> 0],
      [name |-> "Step2_TruthJet_pt_noweight", nx |-> 199, xlo |-> 10000, xhi |-> 2000000, den |-> 1, ny |-> 0, ylo |-> 0, yhi |-> 0],
      [name |-> "Step2_TruthJet_pt", nx |-> 199, xlo |-> 10000, xhi |-> 2000000, den |-> 1, ny |-> 0, ylo |-> 0, yhi |-> 0],
      [name |-> "Step3_RecoJet_njets_lowmu", nx |-> 15, xlo |-> 0, xhi |-> 30, den |-> 1, ny |-> 0, ylo |-> 0, yhi |-> 0],
      [name |-> "Step3_RecoJet_njets_midmu", nx |-> 15, xlo |-> 0, xhi |-> 30, den |-> 1, ny |-> 0, ylo |-> 0, yhi |-> 0],
      [name |-> "Step3_RecoJet_njets_highmu", nx |-> 15, xlo |-> 0, xhi |-> 30, den |-> 1, ny |-> 0, ylo |-> 0, yhi |-> 0],
      [name |-> "Step3_TruthJet_njets_lowmu", nx |-> 15, xlo |-> 0, xhi |-> 30, den |-> 1, ny |-> 0, ylo |-> 0, yhi |-> 0],
      [name |-> "Step3_TruthJet_njets_midmu", nx |-> 15, xlo |-> 0, xhi |-> 30, den |-> 1, ny |-> 0, ylo |-> 0, yhi |-> 0],
      [name |-> "Step3_TruthJet_njets_highmu", nx |-> 15, xlo |-> 0, xhi |-> 30, den |-> 1, ny |-> 0, ylo |-> 0, yhi |-> 0],
      [name |-> "Step3_RecoJets_njets_2D", nx |-> 90, xlo |-> 0, xhi |-> 90, den |-> 1, ny |-> 60, ylo |-> 0, yhi |-> 60],
      [name |-> "Step3_TruthJets_njets_2D", nx |-> 90, xlo |-> 0, xhi |-> 90, den |-> 1, ny |-> 60, ylo |-> 0, yhi |-> 60],
      [name |-> "Step4_RecoJet_jvf_pt20", nx |-> 44, xlo |-> -11, xhi |-> 11, den |-> 10, ny |-> 0, ylo |-> 0, yhi |-> 0],
      [name |-> "Step4_RecoJet_jvf_pt60", nx |-> 44, xlo |-> -11, xhi |-> 11, den |-> 10, ny |-> 0, ylo |-> 0, yhi |-> 0],
      [name |-> "Step4_RecoJet_jvf_pt100", nx |-> 44, xlo |-> -11, xhi |-> 11, den |-> 10, ny |-> 0, ylo |-> 0, yhi |-> 0],
      [name |-> "Step4_RecoJet_pt_jvf", nx |-> 199, xlo |-> 10000, xhi |-> 2000000, den |-> 1, ny |-> 0, ylo |-> 0, yhi |-> 0],
      [name |-> "Step4_TrackJet_pt", nx |-> 199, xlo |-> 10000, xhi |-> 2000000, den |-> 1, ny |-> 0, ylo |-> 0, yhi |-> 0],
      [name |-> "Step4_TrackJet_njets_lowmu", nx |-> 15, xlo |-> 0, xhi |-> 30, den |-> 1, ny |-> 0, ylo |-> 0, yhi |-> 0],
      [name |-> "Step4_TrackJet_njets_midmu", nx |-> 15, xlo |-> 0, xhi |-> 30, den |-> 1, ny |-> 0, ylo |-> 0, yhi |-> 0],
      [name |-> "Step4_TrackJet_njets_highmu", nx |-> 15, xlo |-> 0, xhi |-> 30, den |-> 1, ny |-> 0, ylo |-> 0, yhi |-> 0],
      [name |-> "Step4_TrackJets_njets_2D", nx |-> 90, xlo |-> 0, xhi |-> 90, den |-> 1, ny |-> 60, ylo |-> 0, yhi |-> 60],
      [name |-> "Step5_DRtruth_reco", nx |-> 10, xlo |-> 0, xhi |-> 1, den |-> 1, ny |-> 0, ylo |-> 0, yhi |-> 0],
      [name |-> "Step5_DRtruth_reco_jvf", nx |-> 10, xlo |-> 0, xhi |-> 1, den |-> 1, ny |-> 0, ylo |-> 0, yhi |-> 0],
      [name |-> "Step5_DRtruth_track", nx |-> 10, xlo |-> 0, xhi |-> 1, den |-> 1, ny |-> 0, ylo |-> 0, yhi |-> 0],
      [name |-> "Step5_response_reco_pt20", nx |-> 100, xlo |-> 0, xhi |-> 2, den |-> 1, ny |-> 0, ylo |-> 0, yhi |-> 0],
      [name |-> "Step5_response_reco_pt100", nx |-> 100, xlo |-> 0, xhi |-> 2, den |-> 1, ny |-> 0, ylo |-> 0, yhi |-> 0],
      [name |-> "Step5_response_reco_pt1000", nx |-> 100, xlo |-> 0, xhi |-> 2, den |-> 1, ny |-> 0, ylo |-> 0, yhi |-> 0],
      [name |-> "Step5_response_track_pt20", nx |-> 100, xlo |-> 0, xhi |-> 2, den |-> 1, ny |-> 0, ylo |-> 0, yhi |-> 0],
      [name |-> "Step5_response_track_pt100", nx |-> 100, xlo |-> 0, xhi |-> 2, den |-> 1, ny |-> 0, ylo |-> 0, yhi |-> 0],
      [name |-> "Step5_response_track_pt1000", nx |-> 100, xlo |-> 0, xhi |-> 2, den |-> 1, ny |-> 0, ylo |-> 0, yhi |-> 0] }

\* the same for jetRecoGroom
GroomAxes ==
    { [name |-> "Step1_mu", nx |-> 100, xlo |-> 0, xhi |-> 100, den |-> 1, ny |-> 0, ylo |-> 0, yhi |-> 0],
      [name |-> "Step1_npv", nx |-> 50, xlo |-> 0, xhi |-> 50, den |-> 1, ny |-> 0, ylo |-> 0, yhi |-> 0],
      [name |-> "Step2_UngroomPt_noweight", nx |-> 215, xlo |-> 50000, xhi |-> 2200000, den |-> 1, ny |-> 0, ylo |-> 0, yhi |-> 0],
      [name |-> "Step2_UngroomPt", nx |-> 215, xlo |-> 50000, xhi |-> 2200000, den |-> 1, ny |-> 0, ylo |-> 0, yhi |-> 0],
      [name |-> "Step2_TrimmedPt", nx |-> 215, xlo |-> 50000, xhi |-> 2200000, den |-> 1, ny |-> 0, ylo |-> 0, yhi |-> 0],
      [name |-> "Step2_UngroomMass", nx |-> 99, xlo |-> 10000, xhi |-> 1000000, den |-> 1, ny |-> 0, ylo |-> 0, yhi |-> 0],
      [name |-> "Step2_TrimmedMass", nx |-> 99, xlo |-> 10000, xhi |-> 1000000, den |-> 1, ny |-> 0, ylo |-> 0, yhi |-> 0],
      [name |-> "Step3_MyUngroomPt_noweight", nx |-> 215, xlo |-> 50000, xhi |-> 2200000, den |-> 1, ny |-> 0, ylo |-> 0, yhi |-> 0],
      [name |-> "Step3_MyUngroomPt", nx |-> 215, xlo |-> 50000, xhi |-> 2200000, den |-> 1, ny |-> 0, ylo |-> 0, yhi |-> 0],
      [name |-> "Step3_MyTrimmedPt_noweight", nx |-> 215, xlo |-> 50000, xhi |-> 2200000, den |-> 1, ny |-> 0, ylo |-> 0, yhi |-> 0],
      [name |-> "Step3_MyTrimmedPt", nx |-> 215, xlo |-> 50000, xhi |-> 2200000, den |-> 1, ny |-> 0, ylo |-> 0, yhi |-> 0],
      [name |-> "Step4_MyPrunedPt", nx |-> 215, xlo |-> 50000, xhi |-> 2200000, den |-> 1, ny |-> 0, ylo |-> 0, yhi |-> 0],
      [name |-> "Step4_MyPrunedMass", nx |-> 215, xlo |-> 10000, xhi |-> 1000000, den |-> 1, ny |-> 0, ylo |-> 0, yhi |-> 0],
      [name |-> "Step4_MySDPt", nx |-> 215, xlo |-> 50000, xhi |-> 2200000, den |-> 1, ny |-> 0, ylo |-> 0, yhi |-> 0],
      [name |-> "Step4_MySDMass", nx |-> 99, xlo |-> 10000, xhi |-> 1000000, den |-> 1, ny |-> 0, ylo |-> 0, yhi |-> 0],
      [name |-> "Step4_MyRSDPt", nx |-> 215, xlo |-> 50000, xhi |-> 2200000, den |-> 1, ny |-> 0, ylo |-> 0, yhi |-> 0],
      [name |-> "Step4_MyRSDMass", nx |-> 99, xlo |-> 10000, xhi |-> 1000000, den |-> 1, ny |-> 0, ylo |-> 0, yhi |-> 0],
      [name |-> "Step4_MyBUSDPt", nx |-> 215, xlo |-> 50000, xhi |-> 2200000, den |-> 1, ny |-> 0, ylo |-> 0, yhi |-> 0],
      [name |-> "Step4_MyBUSDMass", nx |-> 99, xlo |-> 10000, xhi |-> 1000000, den |-> 1, ny |-> 0, ylo |-> 0, yhi |-> 0],
      [name |-> "Step4_MyBUSDTPt", nx |-> 215, xlo |-> 50000, xhi |-> 2200000, den |-> 1, ny |-> 0, ylo |-> 0, yhi |-> 0],
      [name |-> "Step4_MyBUSDTMass", nx |-> 99, xlo |-> 10000, xhi |-> 1000000, den |-> 1, ny |-> 0, ylo |-> 0, yhi |-> 0],
      [name |-> "Step5_Ungroomed_D2", nx |-> 20, xlo |-> 0, xhi |-> 5, den |-> 1, ny |-> 0, ylo |-> 0, yhi |-> 0],
      [name |-> "Step5_Ungroomed_Tau32", nx |-> 20, xlo |-> 0, xhi |-> 1, den |-> 1, ny |-> 0, ylo |-> 0, yhi |-> 0],
      [name |-> "Step5_Trimmed_D2", nx |-> 20, xlo |-> 0, xhi |-> 5, den |-> 1, ny |-> 0, ylo |-> 0, yhi |-> 0],
      [name |-> "Step5_Trimmed_Tau32", nx |-> 20, xlo |-> 0, xhi |-> 1, den |-> 1, ny |-> 0, ylo |-> 0, yhi |-> 0],
      [name |-> "Step5_Pruned_D2", nx |-> 20, xlo |-> 0, xhi |-> 5, den |-> 1, ny |-> 0, ylo |-> 0, yhi |-> 0],
      [name |-> "Step5_Pruned_Tau32", nx |-> 20, xlo |-> 0, xhi |-> 1, den |-> 1, ny |-> 0, ylo |-> 0, yhi |-> 0],
      [name |-> "Step5_SD_D2", nx |-> 20, xlo |-> 0, xhi |-> 5, den |-> 1, ny |-> 0, ylo |-> 0, yhi |-> 0],
      [name |-> "Step5_SD_Tau32", nx |-> 20, xlo |-> 0, xhi |-> 1, den |-> 1, ny |-> 0, ylo |-> 0, yhi |-> 0],
      [name |-> "Step5_RSD_D2", nx |-> 20, xlo |-> 0, xhi |-> 5, den |-> 1, ny |-> 0, ylo |-> 0, yhi |-> 0],
      [name |-> "Step5_RSD_Tau32", nx |-> 20, xlo |-> 0, xhi |-> 1, den |-> 1, ny |-> 0, ylo |-> 0, yhi |-> 0],
      [name |-> "Step5_BUSD_D2", nx |-> 20, xlo |-> 0, xhi |-> 5, den |-> 1, ny |-> 0, ylo |-> 0, yhi |-> 0],
      [name |-> "Step5_BUSD_Tau32", nx |-> 20, xlo |-> 0, xhi |-> 1, den |-> 1, ny |-> 0, ylo |-> 0, yhi |-> 0],
      [name |-> "Step5_BUSDT_D2", nx |-> 20, xlo |-> 0, xhi |-> 5, den |-> 1, ny |-> 0, ylo |-> 0, yhi |-> 0],
      [name |-> "Step5_BUSDT_Tau32", nx |-> 20, xlo |-> 0, xhi |-> 1, den |-> 1, ny |-> 0, ylo |-> 0, yhi |-> 0] }

(***************************************************************************)
(* Histogram tables of the four programs.                                  *)
(***************************************************************************)
Created(p) == IF p = "jetRecoExp" THEN ExpCreated ELSE GroomCreated

Writes(p) == IF p = "jetRecoExp" THEN ExpWrites ELSE GroomWrites

Gets(p) == IF p = "jetRecoExp_plots" THEN ExpPlotsGets ELSE GroomPlotsGets

NullChecks(p) == IF p = "jetRecoExp_plots" THEN ExpPlotsNullChecks ELSE GroomPlotsNullChecks

Axes(p) == IF p = "jetRecoExp" THEN ExpAxes ELSE GroomAxes

\* the pages with the rescaling calls of a page made once more at its end
PagesRescaledAgain(p) ==
    LET t == IF p = "jetRecoExp_plots" THEN ExpPlotsPages ELSE GroomPlotsPages
    IN  [i \in DOMAIN t |->
           [t[i] EXCEPT !.ops = @ \o SelectSeq(@, LAMBDA o : o[1] = "scaleMeVToGeV")]]

Pages(p) == IF p = "jetRecoExp_plots" THEN ExpPlotsPages ELSE GroomPlotsPages

HistNames == { h.name : h \in ExpCreated \cup GroomCreated }

StageGets(p, k) == SelectSeq(Gets(p), LAMBDA g : g.stage = k)

\* the complete file a reco run at depth 0 writes, as [name, type] records
FullFile(p) == { [name |-> g.name, type |-> g.type] : g \in Range(Gets(p)) }

\* the files a plots program is given when it is run on its own: complete,
\* empty, one histogram absent, or one histogram stored with another class
PlotsInputFiles(p) ==
    { FullFile(p), {} }
      \cup { FullFile(p) \ { h } : h \in FullFile(p) }
      \cup { (FullFile(p) \ { h }) \cup { [name |-> h.name, type |-> "TH1D"] } :
                h \in { x \in FullFile(p) : x.name = "Step1_mu" } }

VARIABLES
    prog,          \* which of the four programs runs
    argc,          \* argument count, program name included
    argStep,       \* argv[2], the step-number text
    outFileName,   \* argv[1]
    inFileName,    \* argv[4] (reco) or argv[3] (plots)
    pc,            \* position in main
    exitCode,      \* -1 while running
    stepNum,       \* const int stepNum
    messages,      \* what was printed: << kind, name >>
    treeCols,      \* reco: columns present in the input tree
    numEvents,     \* reco: inTree->GetEntries()
    activeCols,    \* reco: columns with branch status 1
    boundCols,     \* reco: columns with a bound address
    outOpened,     \* the output file / document has been opened
    created,       \* reco: histograms constructed
    iEvent,        \* reco: loop index
    blocksRun,     \* reco: stage blocks entered in the last iteration
    fills,         \* reco: fills of the last iteration, << name, x, w >>
    hist,          \* histogram contents by name: entries and sum of weights
    progress,      \* reco: indices for which a progress line was printed
    outFile,       \* reco: [name, type] records written to the output file
    inFileHists,   \* plots: [name, type] records in the input file
    retrieved,     \* plots: names whose pointer is non-null
    cur,           \* plots: stage being retrieved / page being rendered
    doc,           \* plots: what the output document received, << what, stage >>
    plotHist,      \* plots: the histogram objects behind the non-null pointers
    opLog,         \* plots: rescale, normalise and draw calls made so far
    chained,       \* this plots run reads the file of the preceding reco run
    recoStep,      \* stepNum of that reco run, -1 otherwise
    inFile,        \* what TFile::Open gave: "unopened", "null", "zombie", "open"
    inTree,        \* reco: class of the object inFile->Get(inTreeName) gave
    event,         \* reco: << the entry GetEntry loaded last >>, << >> before
    seen           \* reco: the events the loop has loaded so far, as a bag

vars ==
    << prog, argc, argStep, outFileName, inFileName, pc, exitCode, stepNum,
       messages, treeCols, numEvents, activeCols, boundCols, outOpened,
       created, iEvent, blocksRun, fills, hist, progress, outFile,
       inFileHists, retrieved, cur, doc, plotHist, opLog, chained, recoStep, inFile, inTree,
       event, seen >>

argVars == << prog, argc, argStep, outFileName, inFileName, chained, recoStep >>

recoVars ==
    << treeCols, numEvents, activeCols, boundCols, created, iEvent,
       blocksRun, fills, hist, progress, outFile, event, seen >>

envVars == << inFile, inTree >>

plotsVars == << inFileHists, retrieved, cur, doc, plotHist, opLog >>

\* a histogram nobody filled: no entry, no bin content
EmptyBins == [k \in {} |-> 0]

EmptyHist == [n \in HistNames |-> [entries |-> 0, sumw |-> 0, bins |-> EmptyBins]]

Exit(code, msg) ==
    /\ pc' = "exited"
    /\ exitCode' = code
    /\ messages' = messages \o msg

Init ==
    /\ prog \in Progs
    /\ argc \in 1..MaxArgc
    /\ argStep \in IF argc >= 3 THEN StepArgs ELSE { StrEmpty }
    /\ outFileName \in IF prog \in PlotsProgs /\ argc >= 4 THEN PlotsOutNames ELSE { NameRoot }
    /\ inFileName \in IF prog \in PlotsProgs /\ argc >= 4 THEN PlotsInNames ELSE { NameRoot }
    /\ pc = "start"
    /\ exitCode = -1
    /\ stepNum = 0
    /\ messages = << >>
    /\ treeCols = {}
    /\ numEvents = 0
    /\ activeCols = {}
    /\ boundCols = {}
    /\ outOpened = FALSE
    /\ created = {}
    /\ iEvent = 0
    /\ blocksRun = {}
    /\ fills = << >>
    /\ hist = EmptyHist
    /\ progress = << >>
    /\ outFile = {}
    /\ inFileHists = {}
    /\ retrieved = {}
    /\ cur = 0
    /\ doc = << >>
    /\ plotHist = EmptyBins
    /\ opLog = << >>
    /\ chained = FALSE
    /\ recoStep = -1
    /\ inFile = "unopened"
    /\ inTree = "unopened"
    /\ event = << >>
    /\ seen = EmptyBag

(***************************************************************************)
(* Argument handling.                                                      *)
(***************************************************************************)
\* if (argc < 5) { usage; return 1; }   -- more arguments are accepted
RecoArgcExact(n) == n = RecoMinArgc

RecoArgcOK(n) == ~(n < RecoMinArgc)

PlotsArgcOK(n) == ~(n < PlotsMinArgc)

RecoCheckArgs ==
    /\ prog \in RecoProgs
    /\ pc = "start"
    /\ IF RecoArgcOK(argc)
       THEN pc' = "parse" /\ UNCHANGED << exitCode, messages >>
       ELSE Exit(ExitError, << << "usage", "" >> >>)
    /\ UNCHANGED << argVars, envVars, recoVars, plotsVars, stepNum, outOpened >>

PlotsCheckArgs ==
    /\ prog \in PlotsProgs
    /\ pc = "start"
    /\ IF PlotsArgcOK(argc)
       THEN pc' = "parse" /\ UNCHANGED << exitCode, messages >>
       ELSE Exit(ExitError, << << "usage", "" >> >>)
    /\ UNCHANGED << argVars, envVars, recoVars, plotsVars, stepNum, outOpened >>

\* if (stepNum < 0 || stepNum > 5)
StepInRange(s) == ~(s < 0 \/ s > NumStages)

RecoParseArgs ==
    /\ prog \in RecoProgs
    /\ pc = "parse"
    /\ stepNum' = ToInt(atol(argStep))
    /\ IF StepInRange(stepNum')
       THEN pc' = "open" /\ UNCHANGED << exitCode, messages >>
       ELSE Exit(ExitError, << << "invalid step", "" >> >>)
    /\ UNCHANGED << argVars, envVars, recoVars, plotsVars, outOpened >>

PlotsParseArgs ==
    /\ prog \in PlotsProgs
    /\ pc = "parse"
    /\ stepNum' = ToInt(atol(argStep))
    /\ IF ~EndsWith(outFileName, << ".", "p", "d", "f" >>)
       THEN Exit(ExitError, << << "not a pdf", "" >> >>)
       ELSE IF ~EndsWith(inFileName, << ".", "r", "o", "o", "t" >>)
       THEN Exit(ExitError, << << "not a root file", "" >> >>)
       ELSE IF ~StepInRange(stepNum')
       THEN Exit(ExitError, << << "invalid step", "" >> >>)
       ELSE pc' = "open" /\ UNCHANGED << exitCode, messages >>
    /\ UNCHANGED << argVars, envVars, recoVars, plotsVars, outOpened >>

(***************************************************************************)
(* The reco programs: input, branch wiring, output file and histograms.    *)
(***************************************************************************)
\* what TFile::Open(name, "READ") can give: a null pointer (no such file),
\* a zombie object (not a readable ROOT file) or an open file
FileStates == { "null", "zombie", "open" }

\* what inFile->Get(inTreeName) can give: nothing, a tree, or an object of
\* another class
TreeObjects == { "none", "TTree", "TH1F" }

\* the test with the zombie case left out
FileOpenFailedNoZombie(f) == f = "null"

\* if (!inFile || inFile->IsZombie())
FileOpenFailed(f) == f = "null" \/ f = "zombie"

\* dynamic_cast<TTree*>(inFile->Get(inTreeName)); if (!inTree)
TreeMissing(obj) == ~DynCastOK(obj, "TTree")

\* TFile::Open(...,"READ") and dynamic_cast<TTree*>(inFile->Get(...))
RecoOpenInput ==
    /\ prog \in RecoProgs
    /\ pc = "open"
    /\ inFile' \in FileStates
    /\ IF FileOpenFailed(inFile')
       THEN /\ Exit(ExitError, << << "failed to open the input file", "" >> >>)
            /\ UNCHANGED << inTree, treeCols, numEvents >>
       ELSE /\ inTree' \in TreeObjects
            /\ IF TreeMissing(inTree')
               THEN /\ Exit(ExitError, << << "failed to retrieve the input tree", "" >> >>)
                    /\ UNCHANGED << treeCols, numEvents >>
               ELSE /\ pc' = "wire"
                    /\ treeCols' \in TreeColSets(prog)
                    /\ numEvents' \in 0..MaxEvents
                    /\ UNCHANGED << exitCode, messages >>
    /\ UNCHANGED << argVars, plotsVars, stepNum, outOpened, activeCols,
                    boundCols, created, iEvent, blocksRun, fills, hist,
                    progress, outFile, event, seen >>

\* TTree::SetBranchStatus / SetBranchAddress on a name the tree does not
\* have print an error naming the branch and change nothing; their results
\* are not looked at.
UnknownBranchMsgs(p, s, cols) ==
    LET wanted == SelectSeq(Branches(p), LAMBDA b : StageActive(s, b.stage) /\ b.col \notin cols)
    IN  [i \in 1..Len(wanted) |-> << "unknown branch", wanted[i].col >>]

RecoWireBranches ==
    /\ prog \in RecoProgs
    /\ pc = "wire"
    /\ activeCols' = WiredCols(prog, stepNum) \cap treeCols
    /\ boundCols' = WiredCols(prog, stepNum) \cap treeCols
    /\ messages' = messages \o UnknownBranchMsgs(prog, stepNum, treeCols)
    /\ pc' = "prepare"
    /\ UNCHANGED << argVars, envVars, plotsVars, stepNum, exitCode, outOpened, treeCols,
                    numEvents, created, iEvent, blocksRun, fills, hist,
                    progress, outFile, event, seen >>

\* which histograms the program constructs: all of them, whatever the step
ConstructedHists(p, s) == Created(p)

\* TFile::Open(...,"RECREATE") followed by the histogram definitions.  The
\* output path is taken to be writable.
RecoPrepareOutput ==
    /\ prog \in RecoProgs
    /\ pc = "prepare"
    /\ outOpened' = TRUE
    /\ created' = ConstructedHists(prog, stepNum)
    /\ hist' = EmptyHist
    /\ iEvent' = 0
    /\ pc' = "loop"
    /\ UNCHANGED << argVars, envVars, plotsVars, stepNum, exitCode, messages, treeCols,
                    numEvents, activeCols, boundCols, blocksRun, fills,
                    progress, outFile, event, seen >>

(***************************************************************************)
(* One iteration of the event loop.  A statement either fills, or faults:  *)
(* "throw" is std::vector::at out of range (uncaught, the process aborts), *)
(* "ub" is a dereference of a pointer that is still nullptr because its    *)
(* column is absent.  What the null dereference does is not defined: the   *)
(* process is killed (mode "segv") or the statement has no effect and the  *)
(* run goes on (mode "skip").                                              *)
(***************************************************************************)
UBOutcomes == { "segv", "skip" }

NoEffect == [fills |-> << >>, blocks |-> {}, stop |-> "none", ub |-> FALSE]

Stops(r) == r.stop # "none"

\* a, then b unless a stopped the run
Then(a, b) ==
    IF Stops(a) THEN a
    ELSE [fills |-> a.fills \o b.fills, blocks |-> a.blocks \cup b.blocks,
          stop |-> b.stop, ub |-> a.ub \/ b.ub]

Enter(k) == [NoEffect EXCEPT !.blocks = { k }]

\* TH1::Fill(x): the weight argument forgotten
FillUnit(name, x, w) == [NoEffect EXCEPT !.fills = << << name, x, 1 >> >>]

\* TH1::Fill(x, w); Fill(x) is Fill(x, 1)
Fill(name, x, w) == [NoEffect EXCEPT !.fills = << << name, x, w >> >>]

NullDeref(mode) ==
    [NoEffect EXCEPT !.ub = TRUE, !.stop = IF mode = "segv" THEN "segv" ELSE "none"]

Throw == [NoEffect EXCEPT !.stop = "throw"]

\* the value GetEntry leaves in a scalar variable: 0 unless the column is loaded
Scalar(ev, col, loaded) == IF col \in loaded THEN ev[col] ELSE 0

IsNull(col, loaded) == col \notin loaded

\* the element read with operator[] instead of at(): no range check, and
\* past the end whatever lies there (0 here) is filled
FillAtUnchecked(name, ev, col, i, w, loaded, mode) ==
    IF IsNull(col, loaded) THEN NullDeref(mode)
    ELSE IF i > Len(ev[col]) THEN Fill(name, 0, w)
    ELSE Fill(name, ev[col][i], w)

\* hist.Fill(vec->at(i), w)
FillAt(name, ev, col, i, w, loaded, mode) ==
    IF IsNull(col, loaded) THEN NullDeref(mode)
    ELSE IF i > Len(ev[col]) THEN Throw
    ELSE Fill(name, ev[col][i], w)

\* the body run without the size test
IfSizeAlways(ev, col, loaded, mode, body) ==
    IF IsNull(col, loaded) THEN NullDeref(mode) ELSE body

\* if (vec->size()) body
IfSize(ev, col, loaded, mode, body) ==
    IF IsNull(col, loaded) THEN NullDeref(mode)
    ELSE IF Len(ev[col]) > 0 THEN body
    ELSE NoEffect

\* if (vec->at(0) > cut) body
IfAt0Above(ev, col, cut, loaded, mode, body) ==
    IF IsNull(col, loaded) THEN NullDeref(mode)
    ELSE IF Len(ev[col]) = 0 THEN Throw
    ELSE IF ev[col][1] > cut THEN body
    ELSE NoEffect

\* if (!stepNum || stepNum >= k) { body }
Block(s, k, body) == IF StageActive(s, k) THEN Then(Enter(k), body) ELSE NoEffect

ExpStep1(ev, loaded) ==
    Then(Fill("Step1_mu", Scalar(ev, "mu_average", loaded), 1),
    Then(Fill("Step1_npv", Scalar(ev, "NPV", loaded), 1),
         Fill("Step1_mu_npv",
              << Scalar(ev, "mu_average", loaded), Scalar(ev, "NPV", loaded) >>, 1)))

ExpStep2(ev, loaded, mode) ==
    LET w == Scalar(ev, "EventWeight", loaded)
    IN  Then(IfSize(ev, "RecoJets_R4_pt", loaded, mode,
                 Then(FillAt("Step2_RecoJet_pt_noweight", ev, "RecoJets_R4_pt", 1, 1, loaded, mode),
                      FillAt("Step2_RecoJet_pt", ev, "RecoJets_R4_pt", 1, w, loaded, mode))),
             IfSize(ev, "TruthJets_R4_pt", loaded, mode,
                 Then(FillAt("Step2_TruthJet_pt_noweight", ev, "TruthJets_R4_pt", 1, 1, loaded, mode),
                      FillAt("Step2_TruthJet_pt", ev, "TruthJets_R4_pt", 1, w, loaded, mode))))

\* the event with a step-3 block that counts the event in a multiplicity
\* histogram
ExpEventCounting(ev, s, loaded, mode) ==
    Then(Block(s, 1, ExpStep1(ev, loaded)),
    Then(Block(s, 2, ExpStep2(ev, loaded, mode)),
    Then(Block(s, 3, Fill("Step3_RecoJet_njets_lowmu", 0, Scalar(ev, "EventWeight", loaded))),
    Then(Block(s, 4, NoEffect),
         Block(s, 5, NoEffect)))))

\* steps 3, 4 and 5 of jetRecoExp are empty blocks
ExpEvent(ev, s, loaded, mode) ==
    Then(Block(s, 1, ExpStep1(ev, loaded)),
    Then(Block(s, 2, ExpStep2(ev, loaded, mode)),
    Then(Block(s, 3, NoEffect),
    Then(Block(s, 4, NoEffect),
         Block(s, 5, NoEffect)))))

GroomStep1(ev, loaded) ==
    Then(Fill("Step1_mu", Scalar(ev, "mu_average", loaded), 1),
         Fill("Step1_npv", Scalar(ev, "NPV", loaded), 1))

\* every fill of the block sits under the ungroomed collection's size test
GroomStep2(ev, loaded, mode) ==
    LET w == Scalar(ev, "EventWeight", loaded)
    IN  IfSize(ev, "RecoJets_R10_pt", loaded, mode,
         Then(FillAt("Step2_UngroomPt_noweight", ev, "RecoJets_R10_pt", 1, 1, loaded, mode),
         Then(FillAt("Step2_UngroomPt", ev, "RecoJets_R10_pt", 1, w, loaded, mode),
         Then(FillAt("Step2_TrimmedPt", ev, "RecoJets_R10_Trimmed_pt", 1, w, loaded, mode),
         Then(IfAt0Above(ev, "RecoJets_R10_pt", MassPtCut, loaded, mode,
                  FillAt("Step2_UngroomMass", ev, "RecoJets_R10_m", 1, w, loaded, mode)),
              IfAt0Above(ev, "RecoJets_R10_Trimmed_pt", MassPtCut, loaded, mode,
                  FillAt("Step2_TrimmedMass", ev, "RecoJets_R10_Trimmed_m", 1, w, loaded, mode)))))))

\* the constituent loop: cluster_pt->at(i), cluster_eta->at(i), ... ; the
\* result is the constituents that were built
RECURSIVE ClusterLoop(_, _, _, _, _)
ClusterLoop(ev, i, loaded, mode, acc) ==
    IF i > Len(ev["Clusters_pt"]) THEN [r |-> NoEffect, pts |-> acc]
    ELSE LET nulls == { c \in { "Clusters_eta", "Clusters_phi", "Clusters_m" } : IsNull(c, loaded) }
             short == { c \in { "Clusters_eta", "Clusters_phi", "Clusters_m" } \ nulls : i > Len(ev[c]) }
         IN  IF nulls # {}
             THEN IF mode = "segv" THEN [r |-> NullDeref(mode), pts |-> acc]
                  ELSE LET rest == ClusterLoop(ev, i + 1, loaded, mode, acc)
                       IN  [r |-> Then(NullDeref(mode), rest.r), pts |-> rest.pts]
             ELSE IF short # {} THEN [r |-> Throw, pts |-> acc]
             ELSE ClusterLoop(ev, i + 1, loaded, mode,
                              Append(acc, [pt |-> ev["Clusters_pt"][i],
                                           eta |-> ev["Clusters_eta"][i],
                                           phi |-> ev["Clusters_phi"][i]]))

RECURSIVE SumSeq(_)
SumSeq(s) == IF s = << >> THEN 0 ELSE Head(s) + SumSeq(Tail(s))

\* The constituents of the events are massless, share one azimuth, and lie
\* at pseudorapidities that are pairwise equal, 0.5 apart or 3 apart.  For
\* such constituents sequential recombination with radius r joins exactly
\* the ones closer than r to each other, and the transverse momentum of the
\* result is the sum of theirs.

\* the radii and the fraction of the jet definitions (eta and phi are in
\* thousandths): anti-kt R = 1.0, kt R = 0.2, SelectorPtFractionMin(0.05)
JetRadius == 1000
SubjetRadius == 200
PtFractionMinPercent == 5

Near(a, b, r) ==
    (a.eta - b.eta) * (a.eta - b.eta) + (a.phi - b.phi) * (a.phi - b.phi) < r * r

\* the constituents grouped into jets of radius r
RECURSIVE Recombine(_, _)
Recombine(parts, r) ==
    IF parts = << >> THEN << >>
    ELSE << SelectSeq(parts, LAMBDA c : Near(c, Head(parts), r)) >>
         \o Recombine(SelectSeq(parts, LAMBDA c : ~Near(c, Head(parts), r)), r)

\* PseudoJet::pt() of a jet given by its constituents
JetPt(parts) == SumSeq([i \in DOMAIN parts |-> parts[i].pt])

\* fastjet::sorted_by_pt: decreasing transverse momentum
RECURSIVE sorted_by_pt(_)
sorted_by_pt(jets) ==
    IF jets = << >> THEN << >>
    ELSE LET m == CHOOSE i \in DOMAIN jets :
                    \A j \in DOMAIN jets : JetPt(jets[j]) <= JetPt(jets[i])
         IN  << jets[m] >>
             \o sorted_by_pt([k \in 1..(Len(jets) - 1) |->
                                IF k < m THEN jets[k] ELSE jets[k + 1]])

\* the jets kept in their order in the list
InclusiveJetsUnsorted(parts) == Recombine(parts, JetRadius)

\* fastjet::sorted_by_pt(ClusterSequence(clusters, akt10).inclusive_jets())
InclusiveJets(parts) == sorted_by_pt(Recombine(parts, JetRadius))

\* (*trimmer)(ungroomed).pt(): the jet's constituents are reclustered into
\* kt subjets of radius 0.2 and the subjets with less than 5 percent of
\* the jet's pT are dropped
Trimmed(jet) ==
    LET subs == Recombine(jet, SubjetRadius)
        kept == SelectSeq(subs,
                  LAMBDA sj : 100 * JetPt(sj) >= PtFractionMinPercent * JetPt(jet))
    IN  SumSeq([i \in DOMAIN kept |-> JetPt(kept[i])])

GroomStep3Fills(ev, loaded, pts) ==
    LET w == Scalar(ev, "EventWeight", loaded)
        jets == InclusiveJets(pts)
    IN  IF Len(jets) > 0
        THEN Then(Fill("Step3_MyUngroomPt_noweight", JetPt(jets[1]), 1),
             Then(Fill("Step3_MyUngroomPt", JetPt(jets[1]), w),
             Then(Fill("Step3_MyTrimmedPt_noweight", Trimmed(jets[1]), 1),
                  Fill("Step3_MyTrimmedPt", Trimmed(jets[1]), w))))
        ELSE NoEffect

\* steps 4 and 5 are empty blocks nested inside the step-3 block
GroomStep3(ev, s, loaded, mode) ==
    IF IsNull("Clusters_pt", loaded)
    THEN Then(NullDeref(mode),
         Then(GroomStep3Fills(ev, loaded, << >>),
              Block(s, 4, Block(s, 5, NoEffect))))
    ELSE LET loop == ClusterLoop(ev, 1, loaded, mode, << >>)
         IN  Then(loop.r,
             Then(GroomStep3Fills(ev, loaded, loop.pts),
                  Block(s, 4, Block(s, 5, NoEffect))))

GroomEvent(ev, s, loaded, mode) ==
    Then(Block(s, 1, GroomStep1(ev, loaded)),
    Then(Block(s, 2, GroomStep2(ev, loaded, mode)),
         Block(s, 3, GroomStep3(ev, s, loaded, mode))))

EventResult(p, ev, s, loaded, mode) ==
    IF p = "jetRecoExp" THEN ExpEvent(ev, s, loaded, mode) ELSE GroomEvent(ev, s, loaded, mode)

\* the spacing of single-precision numbers around the non-negative integer n
RECURSIVE Ulp(_)
Ulp(n) == IF n < 16777216 THEN 1 ELSE 2 * Ulp(n \div 2)

\* Float_t(n): the nearest single-precision number, ties to even
RoundFloat(n) ==
    LET u == Ulp(n)
        q == n \div u
        r == n % u
    IN  IF 2 * r < u THEN q * u
        ELSE IF 2 * r > u THEN (q + 1) * u
        ELSE IF q % 2 = 0 THEN q * u
        ELSE (q + 1) * u

\* TAxis::FindBin on n equal bins over lo/den .. hi/den: 0 is the underflow
\* bin and n + 1 the overflow bin
FindBin(x, n, lo, hi, den) ==
    IF x * den < lo THEN 0
    ELSE IF ~(x * den < hi) THEN n + 1
    ELSE 1 + (n * (x * den - lo)) \div (hi - lo)

AxisOf(p, name) == CHOOSE a \in Axes(p) : a.name = name

TypeOf(p, name) == (CHOOSE h \in Created(p) : h.name = name).type

\* the bin a Fill(x, ...) or Fill(x, y, ...) lands in
BinOf(p, name, x) ==
    LET a == AxisOf(p, name)
    IN  IF a.ny = 0
        THEN << FindBin(x, a.nx, a.xlo, a.xhi, a.den) >>
        ELSE << FindBin(x[1], a.nx, a.xlo, a.xhi, a.den),
                FindBin(x[2], a.ny, a.ylo, a.yhi, 1) >>

\* the bin set to the weight of the fill rather than raised by it
AddBinContentAssign(type, c, w) == IF type = "TH1F" THEN RoundFloat(w) ELSE w

\* TH1F::AddBinContent: fArray[bin] += Float_t(w); the integer histograms
\* add in int
AddBinContent(type, c, w) ==
    IF type = "TH1F" THEN RoundFloat(c + RoundFloat(w)) ELSE c + w

BinContent(b, k) == IF k \in DOMAIN b THEN b[k] ELSE 0

\* TH1::Fill: one more entry, the weight added to the sum of weights and
\* to the content of the bin
FillHist(p, h, f) ==
    LET k == BinOf(p, f[1], f[2])
    IN  [entries |-> h.entries + 1,
         sumw |-> h.sumw + f[3],
         bins |-> [b \in DOMAIN h.bins \cup { k } |->
                     IF b = k
                     THEN AddBinContent(TypeOf(p, f[1]), BinContent(h.bins, k), f[3])
                     ELSE h.bins[b]]]

RECURSIVE ApplyFills(_, _, _)
ApplyFills(p, h, fs) ==
    IF fs = << >> THEN h
    ELSE LET f == Head(fs)
         IN  ApplyFills(p, [h EXCEPT ![f[1]] = FillHist(p, @, f)], Tail(fs))

\* GetEntry(iEvent) gave ev; the body of the loop runs on it
LoadAndFill(ev, mode) ==
    LET r == EventResult(prog, ev, stepNum, activeCols \cap boundCols, mode)
    IN  /\ event' = << ev >>
        /\ seen' = seen (+) SetToBag({ ev })
        /\ fills' = r.fills
        /\ blocksRun' = r.blocks
        /\ hist' = ApplyFills(prog, hist, r.fills)
        /\ IF r.stop = "throw"
           THEN pc' = "exited" /\ exitCode' = ExitAbort /\ iEvent' = iEvent
           ELSE IF r.stop = "segv"
           THEN pc' = "exited" /\ exitCode' = ExitSegv /\ iEvent' = iEvent
           ELSE pc' = "loop" /\ exitCode' = exitCode /\ iEvent' = iEvent + 1
        /\ progress' = IF iEvent % ProgressEvery = 0 THEN Append(progress, iEvent)
                       ELSE progress
        /\ UNCHANGED << argVars, envVars, plotsVars, stepNum, messages, treeCols,
                        numEvents, activeCols, boundCols, outOpened, created, outFile >>

RecoProcessEvent ==
    /\ prog \in RecoProgs
    /\ pc = "loop"
    /\ iEvent < numEvents
    /\ \E ev \in Events(prog), mode \in UBOutcomes : LoadAndFill(ev, mode)

\* the same with one histogram written under a misspelt name
WrittenHistsRenamed(p, s) ==
    { [name |-> IF h.name = "Step3_RecoJets_njets_2D" THEN "Step3_RecoJet_njets_2D"
                ELSE IF h.name = "Step3_MyTrimmedPt" THEN "Step3_MyTrimPt"
                ELSE h.name,
       type |-> h.type] :
        h \in { x \in Range(Writes(p)) : StageActive(s, x.stage) } }

\* the names the stage-gated Write() calls put into the output file
WrittenHists(p, s) ==
    { [name |-> h.name, type |-> h.type] :
        h \in { x \in Range(Writes(p)) : StageActive(s, x.stage) } }

RecoWriteOutput ==
    /\ prog \in RecoProgs
    /\ pc = "loop"
    /\ ~(iEvent < numEvents)
    /\ outFile' = WrittenHists(prog, stepNum)
    /\ pc' = "exited"
    /\ exitCode' = ExitOK
    /\ UNCHANGED << argVars, envVars, plotsVars, stepNum, messages, treeCols, numEvents,
                    activeCols, boundCols, outOpened, created, iEvent,
                    blocksRun, fills, hist, progress, event, seen >>

(***************************************************************************)
(* The plots programs.                                                     *)
(***************************************************************************)
PlotsOpenInput ==
    /\ prog \in PlotsProgs
    /\ pc = "open"
    /\ inFile' \in IF chained THEN { "open" } ELSE FileStates
    /\ IF FileOpenFailed(inFile')
       THEN /\ Exit(ExitError, << << "unable to open the input file", "" >> >>)
            /\ UNCHANGED << inFileHists, cur >>
       ELSE /\ pc' = "retrieve"
            /\ cur' = 1
            /\ inFileHists' \in IF chained THEN { inFileHists } ELSE PlotsInputFiles(prog)
            /\ UNCHANGED << exitCode, messages >>
    /\ UNCHANGED << argVars, inTree, recoVars, stepNum, outOpened, retrieved, doc,
                    plotHist, opLog >>

\* getHist<C>: dynamic_cast<C*>(inFile.Get(name)); a null result prints the
\* name and is returned to the caller
GetHistOK(file, g) ==
    \E h \in file : h.name = g.name /\ DynCastOK(h.type, g.type)

MissingMsgs(file, gets) ==
    LET miss == SelectSeq(gets, LAMBDA g : ~GetHistOK(file, g))
    IN  [i \in 1..Len(miss) |-> << "missing histogram", miss[i].name >>]

\* the reco program whose output a plots program reads
RecoOf(p) == CHOOSE r \in RecoProgs : PlotsOf(r) = p

\* what a file not written by the reco program holds under a name: the
\* histogram as the reco program constructs it, with two entries of weight
\* 1 in its first bin
StandaloneContent(a) ==
    [entries |-> 2, sumw |-> 2,
     bins |-> [k \in { IF a.ny = 0 THEN << 1 >> ELSE << 1, 1 >> } |-> 2]]

\* the object inFile.Get(name) gives: axis and contents as written, and the
\* factor (num/den) its contents have been multiplied with since; 0/0 is
\* the factor after a multiplication by infinity (every content is NaN)
FileHist(p, n) ==
    LET a == AxisOf(RecoOf(p), n)
        c == IF chained THEN hist[n] ELSE StandaloneContent(a)
    IN  [nx |-> a.nx, xlo |-> a.xlo, xhi |-> a.xhi, den |-> a.den, ny |-> a.ny,
         entries |-> c.entries, bins |-> c.bins, scale |-> [num |-> 1, den |-> 1]]

InRange(h, k) ==
    /\ k[1] \in 1..h.nx
    /\ h.ny # 0 => k[2] \in 1..h.ny

RECURSIVE SumBins(_, _)
SumBins(b, keys) ==
    IF keys = {} THEN 0
    ELSE LET k == CHOOSE x \in keys : TRUE
         IN  b[k] + SumBins(b, keys \ { k })

\* the sum of the stored contents of the bins inside the axis range
RawIntegral(h) == SumBins(h.bins, { k \in DOMAIN h.bins : InRange(h, k) })

\* the rescaling done on both bounds and on the contents as well
scaleMeVToGeVAndContents(h) ==
    [h EXCEPT !.den = @ * 1000, !.scale = [num |-> @.num, den |-> @.den * 1000]]

\* scaleMeVToGeV: SetLimits(xmin / 1.e3, xmax / 1.e3) on the x axis
scaleMeVToGeV(h) == [h EXCEPT !.den = @ * 1000]

\* hist->Scale(1. / hist->Integral()): with a zero integral the factor is
\* infinite and every content becomes NaN
ScaleToUnit(h) ==
    IF h.scale.den = 0 \/ h.scale.num = 0 \/ RawIntegral(h) = 0
    THEN [h EXCEPT !.scale = [num |-> 0, den |-> 0]]
    ELSE [h EXCEPT !.scale = [num |-> 1, den |-> RawIntegral(h)]]

\* one call on a histogram pointer
ApplyOp(kind, h) ==
    IF kind = "scaleMeVToGeV" THEN scaleMeVToGeV(h)
    ELSE IF kind = "Scale" THEN ScaleToUnit(h)
    ELSE h

\* the calls of one page, in source order; a call through a null pointer
\* that did not kill the process has no effect
RECURSIVE RunOps(_, _)
RunOps(ops, st) ==
    IF ops = << >> THEN st
    ELSE LET kind == Head(ops)[1]
             n == Head(ops)[2]
         IN  IF n \notin DOMAIN st.h THEN RunOps(Tail(ops), st)
             ELSE LET after == ApplyOp(kind, st.h[n])
                      entry == [op |-> kind, name |-> n, before |-> st.h[n], after |-> after]
                  IN  RunOps(Tail(ops),
                             [h |-> [st.h EXCEPT ![n] = after],
                              log |-> IF kind \in { "scaleMeVToGeV", "Scale", "Draw" }
                                      THEN Append(st.log, entry) ELSE st.log])

\* the pointers the stage's "if (!a || !b || ...) return 1;" looks at
StageNullCheck(p, k) == NullChecks(p)[k]

\* one "if (!stepNum || stepNum >= k) { ...getHist...; if (...) return 1; }"
PlotsRetrieveStage ==
    /\ prog \in PlotsProgs
    /\ pc = "retrieve"
    /\ cur \in Stages
    /\ IF ~StageActive(stepNum, cur)
       THEN /\ cur' = cur + 1
            /\ UNCHANGED << pc, exitCode, messages, retrieved, plotHist >>
       ELSE LET gets == StageGets(prog, cur)
                got == { g.name : g \in { x \in Range(gets) : GetHistOK(inFileHists, x) } }
                msgs == MissingMsgs(inFileHists, gets)
            IN  /\ retrieved' = retrieved \cup got
                /\ plotHist' = [n \in DOMAIN plotHist \cup got |->
                                  IF n \in got THEN FileHist(prog, n) ELSE plotHist[n]]
                /\ IF \E n \in StageNullCheck(prog, cur) : n \notin retrieved'
                   THEN Exit(ExitError, msgs) /\ cur' = cur
                   ELSE /\ messages' = messages \o msgs
                        /\ cur' = cur + 1
                        /\ UNCHANGED << pc, exitCode >>
    /\ UNCHANGED << argVars, envVars, recoVars, stepNum, outOpened, inFileHists, doc,
                    opLog >>

\* canvas.Print(outFileName + "[")
PlotsOpenDocument ==
    /\ prog \in PlotsProgs
    /\ pc = "retrieve"
    /\ cur = NumStages + 1
    /\ outOpened' = TRUE
    /\ doc' = << << "[", 0 >> >>
    /\ cur' = 1
    /\ pc' = "render"
    /\ UNCHANGED << argVars, envVars, recoVars, stepNum, exitCode, messages,
                    inFileHists, retrieved, plotHist, opLog >>

\* every page of the program, whatever the step number
ActivePagesAll(p, s) == Pages(p)

\* the pages of the stages the step number selects, in source order
ActivePages(p, s) == SelectSeq(Pages(p), LAMBDA pg : StageActive(s, pg.stage))

\* the page's operations touch a histogram whose pointer is null
PageNullDeref(pg, got) == \E i \in DOMAIN pg.ops : pg.ops[i][2] \notin got

\* everything from the previous Print up to and including canvas.Print(outFileName)
PlotsRenderPage ==
    /\ prog \in PlotsProgs
    /\ pc = "render"
    /\ cur <= Len(ActivePages(prog, stepNum))
    /\ LET pg == ActivePages(prog, stepNum)[cur]
       IN  \E mode \in UBOutcomes :
             IF PageNullDeref(pg, retrieved) /\ mode = "segv"
             THEN /\ pc' = "exited"
                  /\ exitCode' = ExitSegv
                  /\ UNCHANGED << doc, cur, plotHist, opLog >>
             ELSE LET r == RunOps(pg.ops, [h |-> plotHist, log |-> opLog])
                  IN  /\ plotHist' = r.h
                      /\ opLog' = r.log
                      /\ doc' = Append(doc, << "page", pg.stage >>)
                      /\ cur' = cur + 1
                      /\ UNCHANGED << pc, exitCode >>
    /\ UNCHANGED << argVars, envVars, recoVars, stepNum, messages, outOpened,
                    inFileHists, retrieved >>

\* canvas.Print(outFileName + "]"); return 0;
PlotsCloseDocument ==
    /\ prog \in PlotsProgs
    /\ pc = "render"
    /\ cur = Len(ActivePages(prog, stepNum)) + 1
    /\ doc' = Append(doc, << "]", 0 >>)
    /\ pc' = "exited"
    /\ exitCode' = ExitOK
    /\ UNCHANGED << argVars, envVars, recoVars, stepNum, messages, outOpened,
                    inFileHists, retrieved, cur, plotHist, opLog >>

(***************************************************************************)
(* The user runs the plots program of the same pipeline on the file a      *)
(* successful reco run wrote.  The reco run is one started as the usage    *)
(* text says, on a tree that has every column.                             *)
(***************************************************************************)
RunPlotsOnOutput ==
    /\ prog \in RecoProgs
    /\ pc = "exited"
    /\ exitCode = ExitOK
    /\ argc = RecoMinArgc
    /\ argStep \in ChainStepArgs
    /\ treeCols = AllCols(prog)
    /\ prog' = PlotsOf(prog)
    /\ argc' = PlotsMinArgc
    /\ argStep' \in ChainStepArgs
    /\ outFileName' = NamePdf
    /\ inFileName' = outFileName
    /\ chained' = TRUE
    /\ recoStep' = stepNum
    /\ inFileHists' = outFile
    /\ pc' = "start"
    /\ exitCode' = -1
    /\ stepNum' = 0
    /\ messages' = << >>
    /\ outOpened' = FALSE
    /\ retrieved' = {}
    /\ cur' = 0
    /\ doc' = << >>
    /\ plotHist' = EmptyBins
    /\ opLog' = << >>
    /\ inFile' = "unopened"
    /\ inTree' = "unopened"
    /\ UNCHANGED recoVars

Next ==
    \/ RecoCheckArgs
    \/ RecoParseArgs
    \/ RecoOpenInput
    \/ RecoWireBranches
    \/ RecoPrepareOutput
    \/ RecoProcessEvent
    \/ RecoWriteOutput
    \/ PlotsCheckArgs
    \/ PlotsParseArgs
    \/ PlotsOpenInput
    \/ PlotsRetrieveStage
    \/ PlotsOpenDocument
    \/ PlotsRenderPage
    \/ PlotsCloseDocument
    \/ RunPlotsOnOutput

Spec == Init /\ [][Next]_vars

(***************************************************************************)
(* The event loop of jetRecoExp on trees whose events carry weights of     *)
(* very different size.  The run was started as the usage text says, on a  *)
(* tree that has every column, and stands at the head of the loop.         *)
(***************************************************************************)
OrderEvent(mu, w, pts) ==
    [mu_average |-> mu, NPV |-> 10, EventWeight |-> w,
     RecoJets_R4_pt |-> pts, RecoJets_R4_eta |-> [i \in DOMAIN pts |-> 0],
     RecoJets_R4_phi |-> [i \in DOMAIN pts |-> 0],
     RecoJets_R4_jvf |-> [i \in DOMAIN pts |-> 900],
     TruthJets_R4_pt |-> pts, TruthJets_R4_eta |-> [i \in DOMAIN pts |-> 0],
     TruthJets_R4_phi |-> [i \in DOMAIN pts |-> 0],
     TrackJets_R4_pt |-> << >>, TrackJets_R4_eta |-> << >>,
     TrackJets_R4_phi |-> << >>]

\* weights 2^24, 1 and 2 on jets that fall into one bin, and an event
\* without jets
OrderEvents ==
    { OrderEvent(20, 16777216, << 50000 >>),
      OrderEvent(20, 1, << 50000 >>),
      OrderEvent(30, 2, << 50000 >>),
      OrderEvent(40, 1, << >>) }

OrderStepArgs == { Str2, Str5 }

InitOrder ==
    /\ prog = "jetRecoExp"
    /\ argc = RecoMinArgc
    /\ argStep \in OrderStepArgs
    /\ outFileName = NameRoot
    /\ inFileName = NameRoot
    /\ pc = "loop"
    /\ exitCode = -1
    /\ stepNum = ToInt(atol(argStep))
    /\ messages = << >>
    /\ treeCols = AllCols(prog)
    /\ numEvents \in 0..MaxOrderEvents
    /\ activeCols = WiredCols(prog, stepNum)
    /\ boundCols = WiredCols(prog, stepNum)
    /\ outOpened = TRUE
    /\ created = ConstructedHists(prog, stepNum)
    /\ iEvent = 0
    /\ blocksRun = {}
    /\ fills = << >>
    /\ hist = EmptyHist
    /\ progress = << >>
    /\ outFile = {}
    /\ inFileHists = {}
    /\ retrieved = {}
    /\ cur = 0
    /\ doc = << >>
    /\ plotHist = EmptyBins
    /\ opLog = << >>
    /\ chained = FALSE
    /\ recoStep = -1
    /\ inFile = "open"
    /\ inTree = "TTree"
    /\ event = << >>
    /\ seen = EmptyBag

OrderProcessEvent ==
    /\ prog \in RecoProgs
    /\ pc = "loop"
    /\ iEvent < numEvents
    /\ \E ev \in OrderEvents, mode \in UBOutcomes : LoadAndFill(ev, mode)

NextOrder ==
    \/ OrderProcessEvent
    \/ RecoWriteOutput

SpecOrder == InitOrder /\ [][NextOrder]_vars

TypeOK ==
    /\ prog \in Progs
    /\ argc \in 1..MaxArgc
    /\ pc \in { "start", "parse", "open", "wire", "prepare", "loop",
                "retrieve", "render", "exited" }
    /\ exitCode \in { -1, ExitOK, ExitError, ExitAbort, ExitSegv }
    /\ iEvent \in 0..MaxEvents
    /\ chained \in BOOLEAN


(***************************************************************************)
(* Properties.                                                             *)
(***************************************************************************)
RecoDone == prog \in RecoProgs /\ pc = "exited" /\ exitCode = ExitOK

\* a loop iteration of a reco program has run to its end
IterationDone == prog \in RecoProgs /\ pc = "loop" /\ iEvent > 0

StageNames(p, k) == { h.name : h \in { x \in Created(p) : x.stage = k } }

FileNames(f) == { h.name : h \in f }

\* C1: in both reco programs, for every accepted step number s and every
\* stage k, stage k's fill block is executed in an event-loop iteration, and
\* stage k's histograms are written to the output file, if and only if
\* s = 0 or s >= k.
C1_StageRunsIffRequested ==
    /\ IterationDone =>
         \A k \in Stages : (k \in blocksRun) <=> (stepNum = 0 \/ stepNum >= k)
    /\ RecoDone =>
         \A k \in Stages :
           /\ (StageNames(prog, k) \subseteq FileNames(outFile)) <=> (stepNum = 0 \/ stepNum >= k)
           /\ (StageNames(prog, k) \cap FileNames(outFile) = {}) <=> ~(stepNum = 0 \/ stepNum >= k)

C1_Witness ==
    /\ RecoDone
    /\ stepNum = 3
    /\ iEvent = numEvents /\ numEvents > 0
    /\ blocksRun = { 1, 2, 3 }
    /\ StageNames(prog, 3) \subseteq FileNames(outFile)
    /\ StageNames(prog, 4) \cap FileNames(outFile) = {}

\* the step number of the other of the two "all steps" requests, 0 and 5
OtherAll(s) == NumStages - s

\* C2: in all four programs a run with step number 0 behaves as a run with
\* step number 5 on the same input: what a run with one of the two has done
\* (columns activated, fills of the event, histograms written or retrieved,
\* pages emitted) is what the code does with the other.
C2_StepZeroIsStepFive ==
    (stepNum \in { 0, NumStages } /\ pc \notin { "start", "parse" }) =>
      LET o == OtherAll(stepNum)
      IN  /\ (prog \in RecoProgs /\ pc \in { "prepare", "loop" }) =>
                /\ activeCols = WiredCols(prog, o) \cap treeCols
                /\ boundCols = WiredCols(prog, o) \cap treeCols
          /\ IterationDone =>
                \E ev \in Events(prog), mode \in UBOutcomes :
                   LET r == EventResult(prog, ev, o, activeCols \cap boundCols, mode)
                   IN  r.fills = fills /\ r.blocks = blocksRun /\ r.blocks = Stages
          /\ RecoDone => outFile = WrittenHists(prog, o)
          /\ (prog \in PlotsProgs /\ pc = "render") =>
                /\ cur <= Len(ActivePages(prog, o)) + 1
                /\ cur <= Len(Pages(prog)) + 1
                /\ \A k \in Stages : \A g \in Range(StageGets(prog, k)) :
                      GetHistOK(inFileHists, g) => g.name \in retrieved
          /\ (prog \in PlotsProgs /\ pc = "exited" /\ exitCode = ExitOK) =>
                Len(doc) = Len(Pages(prog)) + 2

C2_Witness ==
    /\ prog \in PlotsProgs
    /\ chained
    /\ recoStep = 0
    /\ atol(argStep) = [hi |-> 0, lo |-> 5]
    /\ stepNum = NumStages
    /\ pc = "exited"
    /\ exitCode = ExitOK
    /\ Len(doc) = Len(Pages(prog)) + 2

\* the columns and histograms that belong to a stage beyond the step number
ColsBeyond(p, s) == { b.col : b \in { x \in Range(Branches(p)) : x.stage > s } }

HistsBeyond(p, s) == { h.name : h \in { x \in Created(p) : x.stage > s } }

RecoWired == prog \in RecoProgs /\ pc \in { "loop", "exited" } /\ outOpened

\* C3 (as stated): in both reco programs, for a requested depth s in 1..4
\* nothing of a stage k > s is set up: no column of stage k is activated or
\* bound and no histogram of stage k is created.
C3_NothingBeyondDepthIsSetUp ==
    (RecoWired /\ stepNum \in 1..4) =>
      /\ activeCols \cap ColsBeyond(prog, stepNum) = {}
      /\ boundCols \cap ColsBeyond(prog, stepNum) = {}
      /\ { h.name : h \in created } \cap HistsBeyond(prog, stepNum) = {}

\* C3 (amended): for a requested depth s in 1..4 no column of a stage k > s
\* is activated or bound and no histogram of a stage k > s is written to the
\* output file; the histograms of every stage are constructed all the same.
C3_NoColumnBeyondDepth ==
    (RecoWired /\ stepNum \in 1..4) =>
      /\ activeCols \cap ColsBeyond(prog, stepNum) = {}
      /\ boundCols \cap ColsBeyond(prog, stepNum) = {}
      /\ FileNames(outFile) \cap HistsBeyond(prog, stepNum) = {}
      /\ { h.name : h \in created } = { h.name : h \in Created(prog) }

C3_Witness ==
    /\ RecoDone
    /\ stepNum = 2
    /\ treeCols = AllCols(prog)
    /\ activeCols # {}
    /\ ColsBeyond(prog, 2) # {}
    /\ HistsBeyond(prog, 2) \subseteq { h.name : h \in created }
    /\ FileNames(outFile) # {}

\* the depth a step number asks for
Depth(s) == IF s = 0 THEN NumStages ELSE s

\* C4: for each pipeline and stage k the histograms (names and types) the
\* reco program writes for stage k are the ones the plots program retrieves
\* for stage k; so the plots program accepts a file written by the reco
\* program at every depth that needs only stages the reco run wrote and
\* exits with code 1, without opening the document, at any deeper depth.
C4_WireFormatMatches ==
    /\ RecoDone =>
         \A k \in Stages :
           (stepNum = 0 \/ stepNum >= k) =>
             { h \in outFile : h.name \in StageNames(prog, k) }
               = { [name |-> g.name, type |-> g.type] : g \in Range(StageGets(PlotsOf(prog), k)) }
    /\ (prog \in PlotsProgs /\ chained /\ pc = "exited") =>
         IF Depth(stepNum) <= Depth(recoStep)
         THEN exitCode = ExitOK /\ Len(doc) = Len(ActivePages(prog, stepNum)) + 2
         ELSE exitCode = ExitError /\ doc = << >> /\ ~outOpened

C4_Witness ==
    /\ prog = "jetRecoExp_plots"
    /\ chained
    /\ recoStep = 3
    /\ stepNum = 4
    /\ pc = "exited"
    /\ exitCode = ExitError
    /\ << "missing histogram", "Step4_TrackJet_pt" >> \in Range(messages)

\* the input file of a plots run has been opened and read
FileRead == prog \in PlotsProgs /\ cur >= 1

\* the text is an optional sign followed by one or more decimal digits
IsDecimalText(s) ==
    LET u == IF s # << >> /\ Head(s) \in { "-", "+" } THEN Tail(s) ELSE s
    IN  u # << >> /\ \A i \in DOMAIN u : u[i] \in Digits

RECURSIVE StripZeros(_)
StripZeros(s) == IF s # << >> /\ Head(s) = "0" THEN StripZeros(Tail(s)) ELSE s

\* the text is a decimal integer whose value is not one of 0..5; decided on
\* the digits, without computing the value
DecimalOutsideRange(s) ==
    /\ IsDecimalText(s)
    /\ LET neg == Head(s) = "-"
           u == StripZeros(IF Head(s) \in { "-", "+" } THEN Tail(s) ELSE s)
       IN  IF neg THEN u # << >>
           ELSE Len(u) > 1 \/ (Len(u) = 1 /\ DigitVal(u[1]) > NumStages)

\* the step-number argument is the decimal text of one of 0..5
AcceptedStepArg == IsDecimalText(argStep) /\ ~DecimalOutsideRange(argStep)

\* C5 (as stated): in both plots programs, for every accepted step number
\* and every histogram an active stage retrieves, if that histogram is absent
\* from the input file or has the wrong type, the program reports a missing
\* histogram and exits with code 1 before any page is rendered and before
\* the document is opened.
C5_MissingHistogramIsFatal ==
    (FileRead /\ AcceptedStepArg /\ pc \in { "render", "exited" }) =>
      \A g \in Range(Gets(prog)) :
        ((stepNum = 0 \/ stepNum >= g.stage) /\ ~GetHistOK(inFileHists, g)) =>
          /\ pc = "exited"
          /\ exitCode = ExitError
          /\ doc = << >>
          /\ \E i \in DOMAIN messages : messages[i][1] = "missing histogram"

\* the stages a finished reco run was asked for are all in the output file
AllRequestedWritten ==
    \A h \in Created(prog) :
      (stepNum = 0 \/ stepNum >= h.stage) =>
        [name |-> h.name, type |-> h.type] \in outFile

\* C6 (as stated): a run is all-or-nothing.  Every path that ends with exit
\* code 1 ends before any output is produced, and every run that opens its
\* output processes and writes all requested stages and ends with exit code
\* 0.  (For the reco programs this is stated for input trees that hold every
\* column and a step argument that is the text of one of 0..5, so that it
\* does not rest on what a missing column or a malformed argument does.)
C6_AllOrNothing ==
    /\ (pc = "exited" /\ exitCode = ExitError) =>
         /\ ~outOpened
         /\ doc = << >>
         /\ prog \in RecoProgs => outFile = {}
    /\ (prog \in RecoProgs /\ pc = "exited" /\ outOpened /\ AcceptedStepArg
          /\ treeCols = AllCols(prog)) =>
         /\ exitCode = ExitOK
         /\ iEvent = numEvents
         /\ AllRequestedWritten
    /\ (prog \in PlotsProgs /\ pc = "exited" /\ outOpened) =>
         /\ exitCode = ExitOK
         /\ Len(doc) = Len(ActivePages(prog, stepNum)) + 2

\* the program has read argv[2] and gone past the range check
StepArgChecked == ~chained /\ argc >= 3 /\ pc \notin { "start", "parse" }

\* C7 (as stated): in all four programs every step-number argument whose
\* integer value lies outside 0..5, values beyond the 32-bit range included,
\* causes exit code 1 with no event processed and no page rendered.
C7_OutOfRangeStepIsFatal ==
    (StepArgChecked /\ DecimalOutsideRange(argStep)) =>
      /\ pc = "exited"
      /\ exitCode = ExitError
      /\ iEvent = 0
      /\ doc = << >>

UsageExit ==
    /\ pc = "exited"
    /\ exitCode = ExitError
    /\ messages = << << "usage", "" >> >>
    /\ ~outOpened
    /\ cur = 0
    /\ treeCols = {}

\* C8 (as stated): a reco program invoked with any number of arguments other
\* than exactly four, and a plots program with any number other than exactly
\* three, prints usage and exits with code 1 without opening any file.
C8_WrongArgCountIsFatal ==
    (~chained /\ pc # "start") =>
      /\ (prog \in RecoProgs /\ argc # RecoMinArgc) => UsageExit
      /\ (prog \in PlotsProgs /\ argc # PlotsMinArgc) => UsageExit

\* C8 (amended): too few arguments are fatal: a reco program invoked with
\* fewer than four arguments, and a plots program with fewer than three,
\* prints usage and exits with code 1 without opening any file; with four
\* (three) or more arguments no usage error is raised and the extra ones are
\* ignored.
C8_TooFewArgsIsFatal ==
    (~chained /\ pc # "start") =>
      /\ (prog \in RecoProgs /\ argc < RecoMinArgc) => UsageExit
      /\ (prog \in PlotsProgs /\ argc < PlotsMinArgc) => UsageExit
      /\ (prog \in RecoProgs /\ argc >= RecoMinArgc) =>
            \A i \in DOMAIN messages : messages[i][1] # "usage"
      /\ (prog \in PlotsProgs /\ argc >= PlotsMinArgc) =>
            \A i \in DOMAIN messages : messages[i][1] # "usage"

C8_Witness ==
    /\ prog \in RecoProgs
    /\ argc = RecoMinArgc - 1
    /\ UsageExit

\* C9 (as stated): a step-number argument that is not the decimal text of an
\* integer ("abc", the empty string) is fatal: the program exits with code 1
\* and runs no stage.
C9_MalformedStepIsFatal ==
    (StepArgChecked /\ ~IsDecimalText(argStep)) =>
      /\ pc = "exited"
      /\ exitCode = ExitError
      /\ blocksRun = {}
      /\ doc = << >>

\* the branch wiring of a reco run is behind it
WiringDone ==
    /\ prog \in RecoProgs
    /\ pc \in { "prepare", "loop" } \/ (pc = "exited" /\ outOpened)

\* C10 (as stated): in both reco programs, if a column required by an active
\* stage is absent from the input tree, the run terminates with exit code 1
\* and a message naming the absent column, before any event is filled.
C10_MissingColumnIsFatal ==
    (WiringDone /\ AcceptedStepArg) =>
      \A b \in Range(Branches(prog)) :
        ((stepNum = 0 \/ stepNum >= b.stage) /\ b.col \notin treeCols) =>
          /\ pc = "exited"
          /\ exitCode = ExitError
          /\ \E i \in DOMAIN messages : messages[i][2] = b.col
          /\ iEvent = 0
          /\ fills = << >>

\* the text s is some text followed by ext
HasExtension(s, ext) ==
    \E i \in 0..Len(s) :
      /\ i + Len(ext) = Len(s)
      /\ \A j \in 1..Len(ext) : s[i + j] = ext[j]

ExitedWithError == pc = "exited" /\ exitCode = ExitError

\* C11: in every program, an input file that cannot be opened (no such file,
\* or a zombie) ends the run with exit code 1; in the reco programs so does
\* an input file in which the named object is absent or is not a tree.
C11_UnreadableInputIsFatal ==
    /\ inFile \in { "null", "zombie" } =>
         ExitedWithError /\ ~outOpened /\ doc = << >> /\ iEvent = 0
    /\ (prog \in RecoProgs /\ inFile = "open" /\ inTree \in { "none", "TH1F" }) =>
         ExitedWithError /\ ~outOpened /\ iEvent = 0 /\ outFile = {}

C11_Witness ==
    /\ prog \in PlotsProgs
    /\ inFile = "zombie"
    /\ ExitedWithError
    /\ messages = << << "unable to open the input file", "" >> >>

\* C12: both plots programs exit with code 1, before the input file or the
\* output document is opened, whenever the output path does not end in
\* ".pdf" or the input path does not end in ".root"; with both paths well
\* formed and a step number in 0..5 the program goes on to open the input
\* file.
C12_PathsAreChecked ==
    (prog \in PlotsProgs /\ argc >= PlotsMinArgc /\ pc \notin { "start", "parse" }) =>
      LET pdf == HasExtension(outFileName, << ".", "p", "d", "f" >>)
          root == HasExtension(inFileName, << ".", "r", "o", "o", "t" >>)
      IN  /\ (~pdf \/ ~root) =>
                ExitedWithError /\ inFile = "unopened" /\ ~outOpened /\ doc = << >>
          /\ (pdf /\ root /\ argStep \in { Str0, Str1, Str2, Str3, Str4, Str5 }) =>
                pc = "open" \/ inFile # "unopened"

C12_Witness ==
    /\ prog \in PlotsProgs
    /\ ~chained
    /\ outFileName = NameBarePdf
    /\ inFileName = NameRoot
    /\ ExitedWithError
    /\ messages = << << "not a pdf", "" >> >>

\* the leading-jet pT histograms and the collection each is filled from
LeadingPtHists(p) ==
    IF p = "jetRecoExp"
    THEN { [name |-> "Step2_RecoJet_pt_noweight", col |-> "RecoJets_R4_pt"],
           [name |-> "Step2_RecoJet_pt", col |-> "RecoJets_R4_pt"],
           [name |-> "Step2_TruthJet_pt_noweight", col |-> "TruthJets_R4_pt"],
           [name |-> "Step2_TruthJet_pt", col |-> "TruthJets_R4_pt"],
           [name |-> "Step4_RecoJet_pt_jvf", col |-> "RecoJets_R4_pt"],
           [name |-> "Step4_TrackJet_pt", col |-> "TrackJets_R4_pt"] }
    ELSE { [name |-> "Step2_UngroomPt_noweight", col |-> "RecoJets_R10_pt"],
           [name |-> "Step2_UngroomPt", col |-> "RecoJets_R10_pt"],
           [name |-> "Step2_TrimmedPt", col |-> "RecoJets_R10_Trimmed_pt"],
           [name |-> "Step3_MyUngroomPt_noweight", col |-> "Clusters_pt"],
           [name |-> "Step3_MyUngroomPt", col |-> "Clusters_pt"],
           [name |-> "Step3_MyTrimmedPt_noweight", col |-> "Clusters_pt"],
           [name |-> "Step3_MyTrimmedPt", col |-> "Clusters_pt"] }

\* the fills the last iteration made into the histogram called name
FillsOf(name) == SelectSeq(fills, LAMBDA f : f[1] = name)

EventLoaded == prog \in RecoProgs /\ event # << >>

\* C13: for every event and every leading-jet pT histogram, the histogram
\* receives at most one fill in that event, and none when the jet
\* collection it is filled from is empty in that event.
C13_LeadingJetFilledAtMostOnce ==
    EventLoaded =>
      \A h \in LeadingPtHists(prog) :
        /\ Len(FillsOf(h.name)) <= 1
        /\ event[1][h.col] = << >> => Len(FillsOf(h.name)) = 0

C13_Witness ==
    /\ prog = "jetRecoGroom"
    /\ EventLoaded
    /\ event[1]["RecoJets_R10_pt"] # << >>
    /\ event[1]["RecoJets_R10_Trimmed_pt"] = << >>
    /\ Len(FillsOf("Step2_UngroomPt")) = 1
    /\ Len(FillsOf("Step2_TrimmedPt")) = 0

\* a weighted histogram and its unweighted counterpart
WeightPairs(p) ==
    IF p = "jetRecoExp"
    THEN { [w |-> "Step2_RecoJet_pt", nw |-> "Step2_RecoJet_pt_noweight"],
           [w |-> "Step2_TruthJet_pt", nw |-> "Step2_TruthJet_pt_noweight"] }
    ELSE { [w |-> "Step2_UngroomPt", nw |-> "Step2_UngroomPt_noweight"],
           [w |-> "Step3_MyUngroomPt", nw |-> "Step3_MyUngroomPt_noweight"],
           [w |-> "Step3_MyTrimmedPt", nw |-> "Step3_MyTrimmedPt_noweight"] }

NoWeightNames(p) == { q.nw : q \in WeightPairs(p) }

\* the histograms filled with the event weight: those of stage 2 and beyond
\* that are not "noweight" ones
WeightedNames(p) ==
    { h.name : h \in { x \in Created(p) : x.stage >= 2 } } \ NoWeightNames(p)

\* C14: within one event (read from a tree that has the EventWeight column)
\* every fill of a weighted histogram carries that event's EventWeight and
\* every fill of a "noweight" histogram carries 1; a weighted histogram
\* and its unweighted counterpart are filled in the same events with the
\* same value.
C14_WeightAppliedUniformly ==
    (EventLoaded /\ "EventWeight" \in treeCols) =>
      /\ \A i \in DOMAIN fills :
            /\ fills[i][1] \in WeightedNames(prog) => fills[i][3] = event[1]["EventWeight"]
            /\ fills[i][1] \in NoWeightNames(prog) => fills[i][3] = 1
      /\ \A q \in WeightPairs(prog) :
            /\ Len(FillsOf(q.w)) = Len(FillsOf(q.nw))
            /\ \A i \in DOMAIN FillsOf(q.w) : FillsOf(q.w)[i][2] = FillsOf(q.nw)[i][2]
            /\ hist[q.w].entries = hist[q.nw].entries

C14_Witness ==
    /\ prog = "jetRecoExp"
    /\ EventLoaded
    /\ "EventWeight" \in treeCols
    /\ event[1]["EventWeight"] = 2
    /\ FillsOf("Step2_RecoJet_pt") = << << "Step2_RecoJet_pt", 45000, 2 >> >>
    /\ FillsOf("Step2_RecoJet_pt_noweight") = << << "Step2_RecoJet_pt_noweight", 45000, 1 >> >>

RecoLeadingPtNames ==
    { "Step2_RecoJet_pt_noweight", "Step2_RecoJet_pt", "Step4_RecoJet_pt_jvf" }

TruthLeadingPtNames == { "Step2_TruthJet_pt_noweight", "Step2_TruthJet_pt" }

SeparationNames ==
    { "Step5_DRtruth_reco", "Step5_DRtruth_reco_jvf", "Step5_DRtruth_track" }

\* the last entry loaded by jetRecoExp has no reco jet and one truth jet
NoRecoOneTruth ==
    /\ prog = "jetRecoExp"
    /\ EventLoaded
    /\ { "RecoJets_R4_pt", "TruthJets_R4_pt" } \subseteq treeCols
    /\ event[1]["RecoJets_R4_pt"] = << >>
    /\ Len(event[1]["TruthJets_R4_pt"]) = 1

\* C15: in jetRecoExp run at depth 2 or more, an event with no reco jet and
\* one truth jet fills each truth leading-pT histogram once, fills no reco
\* leading-pT histogram and no truth-reco separation histogram, and the run
\* goes on without error.
C15_OnlyTruthIsFilled ==
    (NoRecoOneTruth /\ (stepNum = 0 \/ stepNum >= 2)) =>
      /\ \A n \in TruthLeadingPtNames : Len(FillsOf(n)) = 1
      /\ \A n \in RecoLeadingPtNames \cup SeparationNames : Len(FillsOf(n)) = 0
      /\ exitCode \in { -1, ExitOK }

C15_Witness ==
    /\ NoRecoOneTruth
    /\ stepNum = 5
    /\ pc = "loop"
    /\ hist["Step2_TruthJet_pt"].entries = 1
    /\ hist["Step2_RecoJet_pt"].entries = 0

\* the last entry loaded by jetRecoExp, with every column present, has
\* leading truth and reco jets
HasLeadingPair ==
    /\ prog = "jetRecoExp"
    /\ EventLoaded
    /\ treeCols = AllCols(prog)
    /\ event[1]["TruthJets_R4_pt"] # << >>
    /\ event[1]["RecoJets_R4_pt"] # << >>

\* the entry is the scenario's: truth jet (50 GeV, eta 0, phi 0), reco jet
\* (45 GeV, eta 0.05, phi 0.05), weight 2
ScenarioEvent ==
    /\ HasLeadingPair
    /\ event[1]["EventWeight"] = 2
    /\ event[1]["TruthJets_R4_pt"] = << 50000 >>
    /\ event[1]["TruthJets_R4_eta"] = << 0 >>
    /\ event[1]["TruthJets_R4_phi"] = << 0 >>
    /\ event[1]["RecoJets_R4_pt"] = << 45000 >>
    /\ event[1]["RecoJets_R4_eta"] = << 50 >>
    /\ event[1]["RecoJets_R4_phi"] = << 50 >>

\* some fill of the last iteration put a value of lo..hi (thousandths) with
\* weight w into the histogram called name
FilledIn(name, lo, hi, w) ==
    \E i \in DOMAIN fills :
      /\ fills[i][1] = name
      /\ fills[i][2] \in lo..hi
      /\ fills[i][3] = w

\* C16: jetRecoExp run at depth 5 (or 0) on the single scenario event puts
\* one entry into the truth-reco separation histogram, in the bin [0, 0.1)
\* that holds 0.07, and weight 2 into the 20 GeV-floor reco response
\* histogram, in the bin [0.90, 0.92) that holds 0.9.
C16_ScenarioFillsSeparationAndResponse ==
    (ScenarioEvent /\ numEvents = 1 /\ argStep \in { Str0, Str5 }) =>
      /\ \E w \in { 1, 2 } : FilledIn("Step5_DRtruth_reco", 0, 99, w)
      /\ hist["Step5_DRtruth_reco"].entries = 1
      /\ FilledIn("Step5_response_reco_pt20", 900, 919, 2)
      /\ hist["Step5_response_reco_pt20"].sumw = 2

\* an azimuth difference (thousandths of a radian) brought into (-pi, pi]
WrapPhi(d) ==
    IF d > 3142 THEN d - 6283
    ELSE IF d <= -3142 THEN d + 6283
    ELSE d

\* square of the separation of jet a from jet b, each << eta, phi >>
SeparationSq(a, b) ==
    (a[1] - b[1]) * (a[1] - b[1]) + WrapPhi(a[2] - b[2]) * WrapPhi(a[2] - b[2])

LeadingJet(coll) == << event[1][coll \o "_eta"][1], event[1][coll \o "_phi"][1] >>

Matched(a, b) == SeparationSq(a, b) < 300 * 300

ResponseRecoNames ==
    { "Step5_response_reco_pt20", "Step5_response_reco_pt100",
      "Step5_response_reco_pt1000" }

\* C17: in stage 5 of jetRecoExp every event in which the leading truth and
\* reco jets both exist fills the truth-reco separation histogram, and a
\* reco response histogram is filled only when the pair is matched, that
\* is, when its separation is strictly below 0.3.
C17_MatchedIffBelowRadius ==
    (HasLeadingPair /\ argStep \in { Str0, Str5 }) =>
      /\ Len(FillsOf("Step5_DRtruth_reco")) = 1
      /\ \A n \in ResponseRecoNames :
            FillsOf(n) # << >> =>
              Matched(LeadingJet("TruthJets_R4"), LeadingJet("RecoJets_R4"))

\* C20: the separation recorded for a leading pair is computed from the
\* azimuth difference wrapped into (-pi, pi] and is the same whichever jet
\* is taken first: for a truth jet at phi = pi - 0.01 and a reco jet at
\* phi = -pi + 0.01 with equal eta the separation histogram receives about
\* 0.02, not about 2 pi.
C20_SeparationWrapsAndIsSymmetric ==
    (/\ HasLeadingPair
     /\ argStep \in { Str0, Str5 }
     /\ event[1]["TruthJets_R4_phi"][1] = 3131
     /\ event[1]["RecoJets_R4_phi"][1] = -3131
     /\ event[1]["TruthJets_R4_eta"][1] = event[1]["RecoJets_R4_eta"][1]) =>
      \E i \in DOMAIN fills :
        /\ fills[i][1] = "Step5_DRtruth_reco"
        /\ fills[i][2] \in 19..22
        /\ fills[i][2] * fills[i][2] <=
              SeparationSq(LeadingJet("TruthJets_R4"), LeadingJet("RecoJets_R4"))
        /\ fills[i][2] * fills[i][2] <=
              SeparationSq(LeadingJet("RecoJets_R4"), LeadingJet("TruthJets_R4"))

\* number of jets of a collection with pT strictly above 20 GeV
RECURSIVE CountAbove20(_)
CountAbove20(pts) ==
    IF pts = << >> THEN 0
    ELSE (IF Head(pts) > 20000 THEN 1 ELSE 0) + CountAbove20(Tail(pts))

\* the pileup regime of an event: mu < 30, 35 < mu < 45, mu > 50
Regime(mu) ==
    IF mu < 30 THEN "lowmu"
    ELSE IF mu > 35 /\ mu < 45 THEN "midmu"
    ELSE IF mu > 50 THEN "highmu"
    ELSE "none"

\* the multiplicity histograms: collection, stage, and histogram name stem
Multiplicities ==
    { [col |-> "RecoJets_R4_pt", stage |-> 3, stem |-> "Step3_RecoJet_njets_"],
      [col |-> "TruthJets_R4_pt", stage |-> 3, stem |-> "Step3_TruthJet_njets_"],
      [col |-> "TrackJets_R4_pt", stage |-> 4, stem |-> "Step4_TrackJet_njets_"] }

\* C19: in stages 3 and 4 of jetRecoExp the multiplicity recorded for an
\* event and a collection (reco, truth, track) is the number of its jets
\* with pT strictly above 20 GeV, recorded once, with the event weight, in
\* the histogram of the pileup regime the event belongs to.
C19_MultiplicityCountsAbove20 ==
    (/\ prog = "jetRecoExp"
     /\ EventLoaded
     /\ treeCols = AllCols(prog)
     /\ argStep \in { Str0, Str3, Str4, Str5 }
     /\ Regime(event[1]["mu_average"]) # "none") =>
      \A m \in Multiplicities :
        (stepNum = 0 \/ stepNum >= m.stage) =>
          FillsOf(m.stem \o Regime(event[1]["mu_average"])) =
            << << m.stem \o Regime(event[1]["mu_average"]),
                  CountAbove20(event[1][m.col]),
                  event[1]["EventWeight"] >> >>

\* the calls of one kind the plots run has made so far
Calls(kind) == { i \in DOMAIN opLog : opLog[i].op = kind }

\* C21: scaleMeVToGeV changes only the lower and upper bound of the x axis,
\* each to the old bound divided by 1000; the number of bins, the content
\* of every bin and the number of entries are unchanged.
C21_RescaleChangesOnlyBounds ==
    \A i \in Calls("scaleMeVToGeV") :
      LET b == opLog[i].before
          a == opLog[i].after
      IN  /\ a.xlo = b.xlo /\ a.xhi = b.xhi /\ a.den = 1000 * b.den
          /\ a.nx = b.nx /\ a.ny = b.ny
          /\ a.bins = b.bins /\ a.scale = b.scale
          /\ a.entries = b.entries

C21_Witness ==
    \E i \in Calls("scaleMeVToGeV") :
      /\ opLog[i].name = "Step2_RecoJet_pt"
      /\ chained
      /\ opLog[i].before.entries = 2
      /\ opLog[i].before.xlo = 10000 /\ opLog[i].before.den = 1
      /\ opLog[i].after.den = 1000
      /\ DOMAIN opLog[i].after.bins # {}

\* the positions of the document that hold a page of stage k
PagesOf(k) == { i \in DOMAIN doc : doc[i] = << "page", k >> }

PlotsSucceeded == prog \in PlotsProgs /\ pc = "exited" /\ exitCode = ExitOK

\* C23: a successful plots run emits one document-open, then the pages of
\* stages 1..depth in increasing stage order, then one document-close; the
\* pages per stage are 3, 2, 4, 5, 3 for pipeline A and 2, 3, 3, 2, 2 for
\* pipeline B; no page comes before the open or after the close.
C23_DocumentLayout ==
    /\ \A i \in DOMAIN doc :
         /\ doc[i][1] = "[" <=> i = 1
         /\ doc[i][1] = "]" => i = Len(doc) /\ pc = "exited"
         /\ doc[i][1] \in { "[", "]", "page" }
    /\ PlotsSucceeded =>
         /\ Len(doc) >= 2
         /\ doc[Len(doc)] = << "]", 0 >>
         /\ \A i, j \in 2..(Len(doc) - 1) : i < j => doc[i][2] <= doc[j][2]
         /\ \A k \in Stages :
              Cardinality(PagesOf(k)) =
                IF k > Depth(stepNum) THEN 0
                ELSE IF prog = "jetRecoExp_plots" THEN << 3, 2, 4, 5, 3 >>[k]
                ELSE << 2, 3, 3, 2, 2 >>[k]

C23_Witness ==
    /\ PlotsSucceeded
    /\ prog = "jetRecoGroom_plots"
    /\ stepNum = 3
    /\ Len(doc) = 10
    /\ doc[3] = << "page", 1 >> /\ doc[4] = << "page", 2 >>
    /\ doc[9] = << "page", 3 >> /\ doc[10] = << "]", 0 >>

\* the histograms the reco program books with an x axis in MeV
MeVBinned(p) == { a.name : a \in { b \in Axes(RecoOf(p)) : b.xhi >= 1000000 } }

\* the calls of one kind made on one histogram
CallsOn(kind, n) == { i \in Calls(kind) : opLog[i].name = n }

\* C28: every MeV-binned histogram has scaleMeVToGeV applied exactly once
\* before the first page on which it is drawn and never again, also when a
\* later stage draws it once more (Step2_TruthJet_pt in stage 4 of pipeline
\* A, Step3_MyUngroomPt in stage 4 of pipeline B).
C28_RescaledExactlyOnce ==
    prog \in PlotsProgs =>
      \A n \in MeVBinned(prog) :
        /\ Cardinality(CallsOn("scaleMeVToGeV", n)) <= 1
        /\ \A d \in CallsOn("Draw", n) :
             \E i \in CallsOn("scaleMeVToGeV", n) : i < d

C28_Witness ==
    /\ PlotsSucceeded
    /\ \/ /\ prog = "jetRecoExp_plots"
          /\ Cardinality(CallsOn("Draw", "Step2_TruthJet_pt")) >= 2
          /\ Cardinality(CallsOn("scaleMeVToGeV", "Step2_TruthJet_pt")) = 1
       \/ /\ prog = "jetRecoGroom_plots"
          /\ Cardinality(CallsOn("Draw", "Step3_MyUngroomPt")) >= 2
          /\ Cardinality(CallsOn("scaleMeVToGeV", "Step3_MyUngroomPt")) = 1
    /\ PagesOf(4) # {}

\* the stages whose block in the event loop is only a comment
UnfilledStages(p) == IF p = "jetRecoExp" THEN { 3, 4, 5 } ELSE { 4, 5 }

\* C29: the event loop of pipeline A performs no fill on any stage 3, 4 or
\* 5 histogram, and that of pipeline B none on any stage 4 or 5 histogram;
\* when those stages are active their histograms are written with zero
\* entries.
C29_LaterStagesStayEmpty ==
    prog \in RecoProgs =>
      \A k \in UnfilledStages(prog) : \A n \in StageNames(prog, k) :
        /\ FillsOf(n) = << >>
        /\ hist[n].entries = 0 /\ hist[n].bins = EmptyBins
        /\ RecoDone /\ StageActive(stepNum, k) => n \in FileNames(outFile)

C29_Witness ==
    /\ RecoDone
    /\ stepNum = 5
    /\ iEvent = MaxEvents
    /\ blocksRun = Stages
    /\ hist["Step1_mu"].entries = MaxEvents
    /\ \A k \in UnfilledStages(prog) : \A n \in StageNames(prog, k) :
         n \in FileNames(outFile) /\ hist[n].entries = 0

\* the constituents of the loaded event
Constituents ==
    [i \in DOMAIN event[1]["Clusters_pt"] |->
       [pt |-> event[1]["Clusters_pt"][i], eta |-> event[1]["Clusters_eta"][i],
        phi |-> event[1]["Clusters_phi"][i]]]

\* the jets clustering builds from them, and the ones no other jet exceeds
BuiltJets == Range(Recombine(Constituents, JetRadius))

HardestJets == { j \in BuiltJets : \A o \in BuiltJets : JetPt(o) <= JetPt(j) }

RebuiltUngroomedNames == { "Step3_MyUngroomPt_noweight", "Step3_MyUngroomPt" }

RebuiltTrimmedNames == { "Step3_MyTrimmedPt_noweight", "Step3_MyTrimmedPt" }

\* the iteration got to the end of the stage-3 block with every constituent
\* column read from the tree
Stage3Done ==
    /\ prog = "jetRecoGroom" /\ pc = "loop" /\ event # << >>
    /\ 3 \in blocksRun
    /\ { "Clusters_pt", "Clusters_eta", "Clusters_phi", "Clusters_m" }
         \subseteq activeCols \cap boundCols

C26_WitnessTrimmed ==
    /\ Stage3Done
    /\ FillsOf("Step3_MyUngroomPt") = << << "Step3_MyUngroomPt", 520000, 2 >> >>
    /\ FillsOf("Step3_MyTrimmedPt") = << << "Step3_MyTrimmedPt", 500000, 2 >> >>

\* this plots run reads the file of a reco run that went at least as deep
ReadsDeepEnoughOutput ==
    prog \in PlotsProgs /\ chained /\ Depth(recoStep) >= Depth(stepNum)

\* C24: whenever a plots program normalizes a histogram (Scale by
\* 1/Integral) read from a file the corresponding reco program produced at
\* sufficient depth, the integral is non-zero at that point and equals 1
\* afterwards.
C24_NormalisedToUnit ==
    ReadsDeepEnoughOutput =>
      \A i \in Calls("Scale") :
        LET b == opLog[i].before
            a == opLog[i].after
        IN  /\ RawIntegral(b) # 0
            /\ a.scale.den # 0
            /\ RawIntegral(a) * a.scale.num = a.scale.den

\* the stage-2 block of pipeline B has run on the loaded event with every
\* jet column read from the tree
Stage2Ran ==
    /\ prog = "jetRecoGroom" /\ event # << >>
    /\ 2 \in blocksRun
    /\ { "RecoJets_R10_pt", "RecoJets_R10_m", "RecoJets_R10_Trimmed_pt",
         "RecoJets_R10_Trimmed_m" } \subseteq activeCols \cap boundCols

\* the loaded event has a leading jet in the collection, above the floor
HasLeading(col) == Len(event[1][col]) > 0

LeadingAbove(col, cut) == HasLeading(col) /\ event[1][col][1] > cut

\* C25: in stage 2 of pipeline B a jet-mass histogram is filled for an
\* event if and only if the pT of the leading jet of the same variant is
\* strictly greater than 400000, the ungroomed mass gated by the ungroomed
\* pT and the trimmed mass by the trimmed pT, independently of each other;
\* the pT histograms are filled without any pT floor.
C25_MassGatedByOwnPt ==
    Stage2Ran =>
      /\ FillsOf("Step2_UngroomMass") # << >>
            <=> LeadingAbove("RecoJets_R10_pt", MassPtCut)
      /\ FillsOf("Step2_TrimmedMass") # << >>
            <=> LeadingAbove("RecoJets_R10_Trimmed_pt", MassPtCut)
      /\ \A n \in { "Step2_UngroomPt_noweight", "Step2_UngroomPt" } :
            FillsOf(n) # << >> <=> HasLeading("RecoJets_R10_pt")
      /\ FillsOf("Step2_TrimmedPt") # << >> <=> HasLeading("RecoJets_R10_Trimmed_pt")

\* C27: in stage 2 of pipeline B element 0 of a jet collection is read only
\* when that collection is non-empty: an event whose ungroomed collection
\* is non-empty and whose trimmed collection is empty fills no trimmed
\* histogram, raises no error, and the run proceeds to the next event.
C27_EmptyTrimmedIsSkipped ==
    /\ Stage2Ran
    /\ HasLeading("RecoJets_R10_pt")
    /\ ~HasLeading("RecoJets_R10_Trimmed_pt")
    => /\ FillsOf("Step2_TrimmedPt") = << >> /\ FillsOf("Step2_TrimmedMass") = << >>
       /\ pc = "loop"
       /\ exitCode \notin { ExitAbort, ExitSegv }

\* a reco run that got through the argument and input checks (it was given
\* the text of one of 0..5 and a tree with every column) and has ended
ValidatedRunEnded ==
    /\ prog \in RecoProgs /\ pc = "exited"
    /\ outOpened /\ AcceptedStepArg /\ treeCols = AllCols(prog)

\* C30: every reco run that passes argument and input validation
\* terminates having loaded the events 0..N-1 once each in increasing
\* order (so every stage-1 histogram has N entries), having printed a
\* progress line exactly for the indices divisible by 10000, having written
\* the histograms of the active stages, and with exit code 0.
C30_ValidatedRunCompletes ==
    ValidatedRunEnded =>
      /\ exitCode = ExitOK
      /\ iEvent = numEvents
      /\ \A n \in StageNames(prog, 1) : hist[n].entries = numEvents
      /\ \A i \in 0..(numEvents - 1) :
           (\E j \in DOMAIN progress : progress[j] = i) <=> i % ProgressEvery = 0
      /\ outFile = WrittenHists(prog, stepNum)

\* the bag of the elements of a sequence
RECURSIVE BagOfSeq(_)
BagOfSeq(q) == IF q = << >> THEN EmptyBag ELSE SetToBag({ Head(q) }) (+) BagOfSeq(Tail(q))

\* the orders in which the tree can hold the events the loop has seen
Orders(b) ==
    { q \in [1..BagCardinality(b) -> BagToSet(b)] : BagOfSeq(q) = b }

\* the histograms after the loop has run over the events in the order q
RECURSIVE Replay(_, _)
Replay(q, h) ==
    IF q = << >> THEN h
    ELSE Replay(Tail(q),
                ApplyFills(prog, h,
                           EventResult(prog, Head(q), stepNum,
                                       activeCols \cap boundCols, "skip").fills))

\* C22 (as stated): the final contents of every histogram a reco program
\* writes are independent of the order of the input events; the event loop
\* over any permutation of the same multiset of events yields the same bin
\* contents in every histogram.
C22_OrderIndependent ==
    RecoDone =>
      \A q \in Orders(seen) : \A n \in FileNames(outFile) :
        Replay(q, EmptyHist)[n].bins = hist[n].bins

\* C22 (amended): over any permutation of the same multiset of events every
\* written histogram has the same number of entries and the same filled
\* bins; the bin contents are the same in the histograms that are not
\* single-precision, and in a single-precision histogram whenever the sum
\* of the weights filled into it is small enough for every partial sum to
\* be exact in single precision.
C22_OrderIndependentWhenExact ==
    RecoDone =>
      \A q \in Orders(seen) : \A n \in FileNames(outFile) :
        LET r == Replay(q, EmptyHist)[n]
        IN  /\ r.entries = hist[n].entries
            /\ DOMAIN r.bins = DOMAIN hist[n].bins
            /\ (TypeOf(prog, n) # "TH1F" \/ Ulp(hist[n].sumw) = 1) => r.bins = hist[n].bins

C22_Witness ==
    /\ RecoDone
    /\ stepNum = 2
    /\ Cardinality(Orders(seen)) = 6
    /\ hist["Step2_RecoJet_pt"].entries = 2
    /\ hist["Step2_RecoJet_pt"].sumw = 3
    /\ "Step2_RecoJet_pt" \in FileNames(outFile)
    /\ \A q \in Orders(seen) :
         Replay(q, EmptyHist)["Step2_RecoJet_pt"].bins = hist["Step2_RecoJet_pt"].bins

======================================================================
